---- MODULE Spec2Model ----
(***************************************************************************)
(* Phase-balancing controller (core_cutter): the house registry, the phase *)
(* analytics, the export / consume candidate searches and the cycle        *)
(* controller of src/backend/main.py, src/backend/utility.py,              *)
(* src/export.py and src/consumption.py, driven through the telemetry      *)
(* endpoint of src/backend/app.py.                                         *)
(*                                                                         *)
(* Units.  Power is kept in hundredths of a kW (the source keeps kW        *)
(* floats, so 0.15 kW is 15 here), voltage in volts, time in whole seconds *)
(* on the wall clock `now` (datetime.now(timezone.utc)).  An Optional      *)
(* value is a sequence of length 0 (None) or 1.                            *)
(*                                                                         *)
(* The registry dict `houses` is a sequence of HouseState records in       *)
(* insertion order (the order Python iterates a dict in); a house id is    *)
(* its index.  House ids are registered in the order 1, 2, ...; ids are    *)
(* opaque strings in the source, so this loses no behaviour.               *)
(***************************************************************************)
EXTENDS Integers, Sequences, FiniteSets, TLC

VARIABLES
    houses,         \* HouseRegistry.houses
    disk,           \* houses.json as last written by DataStorage.save_houses
    history,        \* switch_history.json (DataStorage.append_switch_history)
    now,            \* wall clock, seconds
    last_mode,      \* PhaseBalancingController._last_mode
    pending_mode,   \* PhaseBalancingController._pending_mode
    pending_since,  \* PhaseBalancingController._pending_since
    ret,            \* what the last call returned or raised
    flip_since,     \* observer: when the detected mode began to differ from
                    \* the confirmed one (None while they agree)
    pc,             \* where each request thread of the server stands
    loc             \* the local variables of each request thread

vars == <<houses, disk, history, now, last_mode, pending_mode, pending_since,
          ret, flip_since, pc, loc>>

modeVars == <<last_mode, pending_mode, pending_since>>
storeVars == <<houses, disk, history>>
threadVars == <<pc, loc>>

-----------------------------------------------------------------------------
(* Bounds of the model *)

MaxHouses == 2          \* house ids 1..MaxHouses
MaxSwitches == 2        \* records kept in the switch history
MaxTicks == 1           \* clock ticks followed after the start and after a pause
MaxPauses == 2          \* pauses of the length of the expiry window
TickStep == 10          \* seconds in one clock tick
MaxModeTicks == 5       \* clock ticks followed while the mode is debounced
ModeStep == 5           \* seconds between two mode observations
MaxThreads == 2         \* request threads of the server
ScenarioHouses == 3     \* houses of a scenario store

(* Inputs of the telemetry endpoint *)
HouseIds == 1..MaxHouses
Threads == 1..MaxThreads
Powers == {-140, 120}
Voltages == {230}
BadPhase == "L4"
\* the powers the houses of a scenario store report, and the powers of the
\* stores of consumers only
ScenarioPowers == {-200, 100, 200, 500}
ConsumerPowers == {100, 400}
\* the voltages and powers the houses of a store with voltage issues report
IssueVoltages == {190, 230, 260}
IssuePowers == {-200, 100, 300}
\* the seconds that pass between two mode observations of a long run
ObservationGaps == {2, 5}
\* the powers a house of a store with smoothed readings has reported, oldest
\* first
ReadingHistories == {<<-200>>, <<-100, -200>>, <<100>>}
\* the powers the houses of a store with stale readings have reported
StalePowers == {-300, -200, 100}
\* the phase totals a direct caller of get_imbalance passes
PhaseTotalInputs == {-280, -140, -20, 0, 120, 240}
\* the phases a direct caller of apply_switch asks for
SwitchTargets == {"L2", BadPhase}
\* the phases houses are registered with; the other phases are reached by
\* switching
ReportedPhases == {"L1", BadPhase}

-----------------------------------------------------------------------------
(* Program constants: src/backend/configerations.py, in 0.01 kW / V / s *)

PHASES == <<"L1", "L2", "L3">>
PhaseSet == {PHASES[i] : i \in 1..Len(PHASES)}

MIN_SWITCH_GAP_SEC == 6             \* MIN_SWITCH_GAP_MIN = 0.1 minutes
READING_EXPIRY_SECONDS == 3600
MODE_STABLE_SECONDS == 10
MIN_IMBALANCE_KW == 15
SWITCH_IMPROVEMENT_KW == 5
CURRENT_MODE_THRESHOLD == 50
OVERVOLTAGE_THRESHOLD == 250
UNDERVOLTAGE_THRESHOLD == 200
HIGH_EXPORT_THRESHOLD == 10
HIGH_IMPORT_THRESHOLD == 10
PHASE_OVERLOAD_THRESHOLD == 100
HIGH_IMBALANCE_KW == 15
CRITICAL_IMBALANCE_KW == 60
\* EWMA_ALPHA = 0.2 = EWMA_ALPHA_NUM / EWMA_ALPHA_DEN
EWMA_ALPHA_NUM == 1
EWMA_ALPHA_DEN == 5
\* datetime(1970, 1, 1): last_changed of a house that was never switched,
\* on a clock whose 0 is the start of the run
EPOCH == -1000000

-----------------------------------------------------------------------------
(* Small helpers *)

None == <<>>
Some(x) == <<x>>
IsNone(o) == Len(o) = 0
Get(o) == o[1]

\* the element of a one-element set.  TheOne({e(x) : x \in {v}}) is
\* LET x == v IN e(x), with v computed once however often e uses x
TheOne(S) == CHOOSE x \in S : TRUE

Abs(x) == IF x < 0 THEN -x ELSE x
Max2(a, b) == IF a >= b THEN a ELSE b
Min2(a, b) == IF a <= b THEN a ELSE b

-----------------------------------------------------------------------------
(* utility.py: data classes *)

\* ReadingOfEachHouse (the `current` field is stored and never read by the
\* controller; it is left out)
Reading(t, v, p) == [timestamp |-> t, voltage |-> v, power_kw |-> p]

\* HouseState
HouseState(ph, lc, r, sm) ==
    [phase |-> ph, last_changed |-> lc, last_reading |-> r,
     smoothed_power_kw |-> sm]

\* RecommendedSwitch
RecommendedSwitch(h, from, to, imp, newImb, reason) ==
    [house_id |-> h, from_phase |-> from, to_phase |-> to,
     improved_kw |-> imp, new_imbalance_kw |-> newImb, reason |-> reason]

\* The four reason templates of the searches, by their fixed prefix
ReasonConflictResolution == "CONFLICT RESOLUTION: Separating mixed export/import"
ReasonInternalConflict == "Resolving internal conflict"
ReasonExport == "Export mode: Moving"
ReasonConsume == "Consume: move"

\* a reason given by a direct caller of apply_switch
ReasonManual == "manual"

\* "CONFLICT" in reason.upper()
HasConflictTag(reason) ==
    reason \in {ReasonConflictResolution, ReasonInternalConflict}

-----------------------------------------------------------------------------
(* utility.py: PhaseRegistry *)

\* a faulty _effective_power_kw that never expires a reading
EffectivePowerKwNoExpiry(house, t) ==
    IF IsNone(house.last_reading) THEN None
    ELSE IF ~IsNone(house.smoothed_power_kw) THEN house.smoothed_power_kw
    ELSE Some(Get(house.last_reading).power_kw)

\* PhaseRegistry._effective_power_kw
EffectivePowerKw(house, t) ==
    IF IsNone(house.last_reading) THEN None
    ELSE IF READING_EXPIRY_SECONDS > 0
            /\ t - Get(house.last_reading).timestamp > READING_EXPIRY_SECONDS
         THEN None
    ELSE IF ~IsNone(house.smoothed_power_kw) THEN house.smoothed_power_kw
    ELSE Some(Get(house.last_reading).power_kw)

EmptyStats ==
    [p \in PhaseSet |-> [power |-> 0, voltage_sum |-> 0, count |-> 0]]

\* the loop of get_phase_stats over registry.houses.values()
RECURSIVE AccumulateStats(_, _, _, _)
AccumulateStats(hs, t, i, stats) ==
    IF i > Len(hs) THEN stats
    ELSE LET house == hs[i]
             eff == EffectivePowerKw(house, t)
         IN  IF IsNone(eff) \/ IsNone(house.last_reading)
             THEN AccumulateStats(hs, t, i + 1, stats)
             ELSE AccumulateStats(hs, t, i + 1,
                    [stats EXCEPT ![house.phase] =
                        [power |-> @.power + Get(eff),
                         voltage_sum |-> @.voltage_sum
                                         + Get(house.last_reading).voltage,
                         count |-> @.count + 1]])

\* stats[phase] raises KeyError for a phase that is no key of the dict
GetPhaseStatsRaises(hs, t) ==
    \E i \in 1..Len(hs) :
        /\ ~IsNone(EffectivePowerKw(hs[i], t))
        /\ hs[i].phase \notin PhaseSet

\* PhaseRegistry.get_phase_stats: one PhaseStats per phase, in PHASES order;
\* avg_voltage is voltage_sum / house_count (0.0 without samples)
GetPhaseStats(hs, t) ==
    TheOne({[k \in 1..Len(PHASES) |->
                [phase |-> PHASES[k],
                 total_power_kw |-> stats[PHASES[k]].power,
                 house_count |-> stats[PHASES[k]].count,
                 voltage_sum |-> stats[PHASES[k]].voltage_sum]]
            : stats \in {AccumulateStats(hs, t, 1, EmptyStats)}})

RECURSIVE SeqMax(_, _)
SeqMax(s, k) == IF k = 1 THEN s[1] ELSE Max2(SeqMax(s, k - 1), s[k])
RECURSIVE SeqMin(_, _)
SeqMin(s, k) == IF k = 1 THEN s[1] ELSE Min2(SeqMin(s, k - 1), s[k])

\* max(powers) - min(powers) of a dict / list of phase totals
Spread(powers) == SeqMax(powers, Len(powers)) - SeqMin(powers, Len(powers))

\* a faulty get_imbalance that takes the first total for the largest and
\* the last for the smallest
GetImbalanceEnds(phase_stat) ==
    phase_stat[1].total_power_kw - phase_stat[Len(phase_stat)].total_power_kw

\* PhaseRegistry.get_imbalance
GetImbalance(phase_stat) ==
    Spread([k \in 1..Len(phase_stat) |-> phase_stat[k].total_power_kw])

\* the loop of get_phase_internal_imbalance and of detect_mode: magnitudes
\* of export and of import over the houses of hs
RECURSIVE AccumulateFlows(_, _, _, _)
AccumulateFlows(hs, t, i, acc) ==
    IF i > Len(hs) THEN acc
    ELSE LET eff == EffectivePowerKw(hs[i], t)
         IN  IF IsNone(eff)
             THEN AccumulateFlows(hs, t, i + 1, acc)
             ELSE IF Get(eff) < 0
             THEN AccumulateFlows(hs, t, i + 1,
                    [acc EXCEPT !.export_power = @ + Abs(Get(eff))])
             ELSE AccumulateFlows(hs, t, i + 1,
                    [acc EXCEPT !.import_power = @ + Get(eff)])

NoFlows == [export_power |-> 0, import_power |-> 0]

\* PhaseRegistry.get_phase_internal_imbalance
GetPhaseInternalImbalance(hs, t, phase) ==
    LET OnPhase(h) == h.phase = phase
    IN  TheOne({[export_power |-> f.export_power,
                 import_power |-> f.import_power,
                 internal_imbalance |-> Abs(f.export_power - f.import_power),
                 has_conflict |-> f.export_power > 10 /\ f.import_power > 10]
                : f \in {AccumulateFlows(SelectSeq(hs, OnPhase), t, 1,
                                         NoFlows)}})

\* list.sort(key=lambda x: x[1], reverse=True) on a list of <<item, key>>
\* pairs: stable, largest key first
RECURSIVE SortDesc(_)
SortDesc(s) ==
    IF Len(s) <= 1 THEN s
    ELSE TheOne({<<s[best]>> \o SortDesc(SubSeq(s, 1, best - 1)
                                         \o SubSeq(s, best + 1, Len(s)))
                 : best \in {CHOOSE i \in 1..Len(s) :
                        /\ \A j \in 1..Len(s) : s[i][2] >= s[j][2]
                        /\ \A j \in 1..(i - 1) : s[j][2] < s[i][2]}})

\* PhaseRegistry.detect_conflicted_phases
DetectConflictedPhases(hs, t) ==
    LET Conflicted(p) == GetPhaseInternalImbalance(hs, t, p).has_conflict
        WithImbalance(phases) == [k \in 1..Len(phases) |->
            <<phases[k],
              GetPhaseInternalImbalance(hs, t, phases[k]).internal_imbalance>>]
    IN  TheOne({[k \in 1..Len(sorted) |-> sorted[k][1]]
                : sorted \in {SortDesc(TheOne({WithImbalance(phases) \o <<>>
                        : phases \in {SelectSeq(PHASES, Conflicted)}}))}})

\* PhaseRegistry.detect_mode
DetectMode(hs, t) ==
    TheOne({IF f.export_power > CURRENT_MODE_THRESHOLD
               /\ f.export_power >= f.import_power
            THEN "EXPORT" ELSE "CONSUME"
            : f \in {AccumulateFlows(hs, t, 1, NoFlows)}})

\* PhaseRegistry.detect_voltage_issues (avg_voltage = voltage_sum / count)
DetectVoltageIssues(phase_stat) ==
    LET Idx == 1..Len(phase_stat)
        HasAvg(ps) == ps.house_count > 0 /\ ps.voltage_sum > 0
        Over(ps) == HasAvg(ps)
                    /\ ps.voltage_sum > OVERVOLTAGE_THRESHOLD * ps.house_count
        Under(ps) == HasAvg(ps) /\ ~Over(ps)
                     /\ ps.voltage_sum < UNDERVOLTAGE_THRESHOLD * ps.house_count
    IN  [OVER_VOLTAGE |-> {phase_stat[k].phase : k \in {k \in Idx : Over(phase_stat[k])}},
         UNDER_VOLTAGE |-> {phase_stat[k].phase : k \in {k \in Idx : Under(phase_stat[k])}},
         OVERLOAD |-> {phase_stat[k].phase : k \in
                        {k \in Idx : phase_stat[k].total_power_kw > PHASE_OVERLOAD_THRESHOLD}},
         EXCESSIVE_EXPORT |-> {phase_stat[k].phase : k \in
                        {k \in Idx : phase_stat[k].total_power_kw < -PHASE_OVERLOAD_THRESHOLD}}]

\* PhaseRegistry.detect_power_issues (the phase lists; the two max_* fields
\* are reporting only)
DetectPowerIssues(phase_stat) ==
    LET Idx == 1..Len(phase_stat)
    IN  [overloaded_phases |-> {phase_stat[k].phase : k \in
            {k \in Idx : Abs(phase_stat[k].total_power_kw) > PHASE_OVERLOAD_THRESHOLD}},
         high_export_phases |-> {phase_stat[k].phase : k \in
            {k \in Idx : phase_stat[k].total_power_kw < -HIGH_EXPORT_THRESHOLD}},
         high_import_phases |-> {phase_stat[k].phase : k \in
            {k \in Idx : phase_stat[k].total_power_kw > HIGH_IMPORT_THRESHOLD}}]

\* bool(d) of a Python dict: true iff it has a key.  Both issue dicts are
\* built with all their keys, whatever was detected.
DictTruthy(d) == DOMAIN d # {}

-----------------------------------------------------------------------------
(* The candidate searches: src/export.py, src/consumption.py *)

\* phase_power = {ps.phase: ps.total_power_kw for ps in phase_stats}
PhasePower(phase_stat) ==
    [p \in PhaseSet |->
        phase_stat[CHOOSE k \in 1..Len(phase_stat) : phase_stat[k].phase = p]
            .total_power_kw]

\* a faulty simulation that takes the power off the source phase and
\* forgets to add it to the target
SimulatedImbalanceNoAdd(phase_power, from, to, power) ==
    LET moved == [p \in PhaseSet |->
                    IF p = from /\ p # to THEN phase_power[p] - power
                    ELSE phase_power[p]]
    IN  Spread([k \in 1..Len(PHASES) |-> moved[PHASES[k]]])

\* new_power = phase_power.copy(); new_power[from] -= power;
\* new_power[to] += power; max(new_power.values()) - min(new_power.values())
SimulatedImbalance(phase_power, from, to, power) ==
    LET moved == [p \in PhaseSet |->
                    IF p = from /\ p = to THEN phase_power[p]
                    ELSE IF p = from THEN phase_power[p] - power
                    ELSE IF p = to THEN phase_power[p] + power
                    ELSE phase_power[p]]
    IN  Spread([k \in 1..Len(PHASES) |-> moved[PHASES[k]]])

\* the indices of hs, in order, as a sequence
Indices(hs) == [i \in 1..Len(hs) |-> i]

\* max(seq, key=...) on a non-empty list of <<item, key>> pairs: the first
\* item with the largest key
FirstMax(s) ==
    s[CHOOSE i \in 1..Len(s) :
        /\ \A j \in 1..Len(s) : s[i][2] >= s[j][2]
        /\ \A j \in 1..(i - 1) : s[j][2] < s[i][2]][1]

\* a faulty loop that replaces the best move on an equal improvement too
RECURSIVE KeepLast(_, _, _)
KeepLast(moves, k, best) ==
    IF k > Len(moves) THEN best
    ELSE IF IsNone(best) \/ moves[k].improved_kw >= Get(best).improved_kw
         THEN KeepLast(moves, k + 1, Some(moves[k]))
         ELSE KeepLast(moves, k + 1, best)

\* the loops `if best is None or improvement > best.improved_kw: best = ...`
\* over the admissible moves in iteration order
RECURSIVE KeepBest(_, _, _)
KeepBest(moves, k, best) ==
    IF k > Len(moves) THEN best
    ELSE IF IsNone(best) \/ moves[k].improved_kw > Get(best).improved_kw
         THEN KeepBest(moves, k + 1, Some(moves[k]))
         ELSE KeepBest(moves, k + 1, best)

\* export_logic.get_candidate_house: exporters with a fresh reading, by raw
\* power, largest magnitude first
GetCandidateHouse(hs, t) ==
    LET IsCand(i) ==
            /\ ~IsNone(hs[i].last_reading)
            /\ ~(t - Get(hs[i].last_reading).timestamp > READING_EXPIRY_SECONDS)
            /\ Get(hs[i].last_reading).power_kw < -10
        WithKey(idx) == [k \in 1..Len(idx) |->
            <<idx[k], Abs(Get(hs[idx[k]].last_reading).power_kw)>>]
    IN  TheOne({[k \in 1..Len(sorted) |->
                    [house_id |-> sorted[k][1],
                     current_phase |-> hs[sorted[k][1]].phase,
                     power_kw |-> Get(hs[sorted[k][1]].last_reading).power_kw]]
                : sorted \in {SortDesc(TheOne({WithKey(idx) \o <<>>
                        : idx \in {SelectSeq(Indices(hs), IsCand)}}))}})

\* exporters_on_source of find_best_switch, and max(..., key=abs(power)):
\* the strongest exporter on the source phase, by raw last reading
ExportersOnSource(hs, source) ==
    LET IsExp(i) == /\ hs[i].phase = source
                    /\ ~IsNone(hs[i].last_reading)
                    /\ Get(hs[i].last_reading).power_kw < -10
    IN  SelectSeq(Indices(hs), IsExp)

StrongestExporter(hs, exporters) ==
    FirstMax([k \in 1..Len(exporters) |->
        <<exporters[k], Abs(Get(hs[exporters[k]].last_reading).power_kw)>>]
        \o <<>>)

\* export_logic.find_best_switch, Priority 1 (lines 80-172): None when the
\* search falls through to Priority 2
ExportConflictMove(hs, t, phase_stat) ==
    LET \* the move of house_id from source, as a RecommendedSwitch
        Move(imb, phase_power, house_id, source, to, reason) ==
            TheOne({RecommendedSwitch(house_id, source, to, imb - ni, ni,
                                      reason)
                    : ni \in {SimulatedImbalance(phase_power, source, to,
                        Get(hs[house_id].last_reading).power_kw)}})
        \* lines 100-172, for the strongest exporter of the source phase
        MoveOf(imb, phase_power, source, house_id) ==
            LET all_on_source == \A i \in 1..Len(hs) :
                    ~IsNone(hs[i].last_reading) => hs[i].phase = source
                IsEmpty(p) == p # source /\ phase_power[p] = 0
                IsImporter(p) == p # source /\ phase_power[p] > 10
                Moves(phases, reason) == [k \in 1..Len(phases) |->
                    Move(imb, phase_power, house_id, source, phases[k],
                         reason)] \o <<>>
            IN  IF all_on_source
                THEN TheOne({IF Len(empty_phases) > 0
                             THEN Some(Move(imb, phase_power, house_id, source,
                                            empty_phases[1],
                                            ReasonConflictResolution))
                             ELSE None
                             : empty_phases \in {SelectSeq(PHASES, IsEmpty)}})
                ELSE TheOne({KeepBest(improving, 1, None)
                             : improving \in {SelectSeq(
                                 Moves(SelectSeq(PHASES, IsImporter),
                                       ReasonInternalConflict),
                                 LAMBDA m : m.improved_kw > 0)}})
        \* lines 84-98, for the most conflicted phase
        FromSource(imb, phase_power, source) ==
            TheOne({IF Len(exporters) = 0 THEN None
                    ELSE MoveOf(imb, phase_power, source,
                                StrongestExporter(hs, exporters))
                    : exporters \in {ExportersOnSource(hs, source)}})
    IN  TheOne({IF Len(conflicted) = 0 THEN None
                ELSE FromSource(imb, phase_power, conflicted[1])
                : imb \in {GetImbalance(phase_stat)},
                  phase_power \in {PhasePower(phase_stat) @@ <<>>},
                  conflicted \in {DetectConflictedPhases(hs, t)}})

\* export_logic.find_best_switch, Priority 2 (lines 174-232)
ExportGlobalMove(hs, t, phase_stat) ==
    LET n == Len(PHASES)
        Admissible(imb, m) ==
            /\ m.to_phase # m.from_phase
            /\ ~(m.new_imbalance_kw >= imb)
            /\ ~(m.improved_kw <= 0)
            \* improvement >= max(SWITCH_IMPROVEMENT_KW, 0.05 * imbalance)
            /\ ~(m.improved_kw < SWITCH_IMPROVEMENT_KW)
            /\ ~(100 * m.improved_kw < 5 * imb)
        \* the move of candidate c to phase `to`
        Move(imb, phase_power, c, to) ==
            TheOne({RecommendedSwitch(c.house_id, c.current_phase, to,
                                      imb - ni, ni, ReasonExport)
                    : ni \in {SimulatedImbalance(phase_power, c.current_phase,
                                                 to, c.power_kw)}})
        \* for house in candidates: for to in PHASES
        Search(imb, phase_power, candidates) ==
            TheOne({KeepBest(admissible, 1, None)
                    : admissible \in {SelectSeq(
                        [m \in 1..(Len(candidates) * n) |->
                            Move(imb, phase_power,
                                 candidates[((m - 1) \div n) + 1],
                                 PHASES[((m - 1) % n) + 1])] \o <<>>,
                        LAMBDA m : Admissible(imb, m))}})
        Filtered(imb, phase_power) ==
            TheOne({Search(imb, phase_power, candidates)
                    : candidates \in {SelectSeq(GetCandidateHouse(hs, t),
                        LAMBDA c : ~(Abs(c.power_kw) < HIGH_EXPORT_THRESHOLD
                                     /\ imb < CRITICAL_IMBALANCE_KW))}})
    IN  TheOne({Filtered(imb, phase_power)
                : imb \in {GetImbalance(phase_stat)},
                  phase_power \in {PhasePower(phase_stat) @@ <<>>}})

\* a faulty find_best_switch that goes on to the conflict search whatever
\* the imbalance is
ExportFindBestSwitchNoMinimum(hs, t) ==
    LET phase_stat == GetPhaseStats(hs, t)
        p1 == ExportConflictMove(hs, t, phase_stat)
    IN  IF ~IsNone(p1) THEN p1
        ELSE ExportGlobalMove(hs, t, phase_stat)

\* export_logic.find_best_switch
ExportFindBestSwitch(hs, t) ==
    LET Search(phase_stat, imb) ==
            IF imb < Max2(MIN_IMBALANCE_KW, HIGH_IMBALANCE_KW) THEN None
            ELSE TheOne({IF ~IsNone(p1) THEN p1
                         ELSE ExportGlobalMove(hs, t, phase_stat)
                         : p1 \in {ExportConflictMove(hs, t, phase_stat)}})
        OnStats(phase_stat) ==
            TheOne({Search(phase_stat, imb)
                    : imb \in {GetImbalance(phase_stat)}})
    IN  TheOne({OnStats(phase_stat)
                : phase_stat \in {GetPhaseStats(hs, t)}})

\* consumption_logic.find_best_switch
ConsumeFindBestSwitch(hs, t) ==
    LET n == Len(PHASES)
        Valid(i) == ~IsNone(EffectivePowerKw(hs[i], t))
        Admissible(imb, m) ==
            /\ m.to_phase # m.from_phase
            /\ ~(m.improved_kw <= 0)
            \* improvement >= max(SWITCH_IMPROVEMENT_KW, 0.02 * imbalance)
            /\ ~(m.improved_kw < SWITCH_IMPROVEMENT_KW)
            /\ ~(100 * m.improved_kw < 2 * imb)
        \* the move of candidate c to phase `to`
        Move(imb, baseline_net, c, to) ==
            TheOne({RecommendedSwitch(c.house_id, c.phase, to, imb - ni, ni,
                                      ReasonConsume)
                    : ni \in {SimulatedImbalance(baseline_net, c.phase, to,
                                                 c.power_kw)}})
        \* for c in candidates: for to in PHASES
        Search(imb, baseline_net, candidates) ==
            TheOne({KeepBest(admissible, 1, None)
                    : admissible \in {SelectSeq(
                        [m \in 1..(Len(candidates) * n) |->
                            Move(imb, baseline_net,
                                 candidates[((m - 1) \div n) + 1],
                                 PHASES[((m - 1) % n) + 1])] \o <<>>,
                        LAMBDA m : Admissible(imb, m))}})
        \* consumers, strongest first, without the weak ones while the
        \* imbalance is not high
        Candidates(imb, house_powers) ==
            TheOne({SelectSeq([k \in 1..Len(sorted) |-> sorted[k][1]] \o <<>>,
                        LAMBDA c : ~(c.power_kw < HIGH_IMPORT_THRESHOLD
                                     /\ imb < HIGH_IMBALANCE_KW))
                    : sorted \in {SortDesc(TheOne({
                        [k \in 1..Len(consumers) |->
                            <<consumers[k], Abs(consumers[k].power_kw)>>]
                        \o <<>>
                        : consumers \in {SelectSeq(house_powers,
                                LAMBDA hp : hp.power_kw > 5)}}))}})
        HousePowers(idx) ==
            [k \in 1..Len(idx) |->
                [house_id |-> idx[k], phase |-> hs[idx[k]].phase,
                 power_kw |-> Get(EffectivePowerKw(hs[idx[k]], t))]] \o <<>>
        \* baseline_net: the same sums as the phase totals
        OnStats(phase_stat, imb) ==
            IF imb < MIN_IMBALANCE_KW THEN None
            ELSE TheOne({Search(imb, baseline_net, candidates)
                         : baseline_net \in {PhasePower(phase_stat) @@ <<>>},
                           candidates \in {Candidates(imb,
                               TheOne({HousePowers(idx)
                                       : idx \in {SelectSeq(Indices(hs),
                                                            Valid)}}))}})
    IN  TheOne({TheOne({OnStats(phase_stat, imb)
                        : imb \in {GetImbalance(phase_stat)}})
                : phase_stat \in {GetPhaseStats(hs, t)}})

-----------------------------------------------------------------------------
(* utility.py: HouseRegistry, on the program state
   st = [houses, disk, history, last_mode, pending_mode, pending_since,
         ret] *)

NoMode == "None"

ProgramState ==
    [houses |-> houses, disk |-> disk, history |-> history,
     last_mode |-> last_mode, pending_mode |-> pending_mode,
     pending_since |-> pending_since,
     ret |-> ret]

Registered(hs, h) == h \in 1..Len(hs)

\* HouseRegistry._ewma
Ewma(previous, new_value) ==
    IF IsNone(previous) THEN new_value
    ELSE (EWMA_ALPHA_NUM * new_value
          + (EWMA_ALPHA_DEN - EWMA_ALPHA_NUM) * Get(previous)) \div EWMA_ALPHA_DEN

\* the smoothed value is a whole number of hundredths of a kW
EwmaExact(previous, new_value) ==
    IF IsNone(previous) THEN TRUE
    ELSE (EWMA_ALPHA_NUM * new_value
          + (EWMA_ALPHA_DEN - EWMA_ALPHA_NUM) * Get(previous)) % EWMA_ALPHA_DEN = 0

\* self.houses[house_id] = value: a new key goes last, a known key keeps
\* its place
DictSet(hs, h, value) ==
    IF Registered(hs, h) THEN [hs EXCEPT ![h] = value] ELSE Append(hs, value)

\* HouseState.to_dict / ReadingOfEachHouse.to_dict (isoformat keeps the
\* instant of a UTC-aware datetime)
ToDict(house_id, house) ==
    [house_id |-> house_id, phase |-> house.phase,
     last_changed |-> house.last_changed,
     last_reading |-> IF IsNone(house.last_reading) THEN None
                      ELSE Some([timestamp |-> Get(house.last_reading).timestamp,
                                 voltage |-> Get(house.last_reading).voltage,
                                 power_kw |-> Get(house.last_reading).power_kw]),
     smoothed_power_kw |-> house.smoothed_power_kw]

\* HouseState.from_dict / ReadingOfEachHouse.from_dict
FromDict(data) ==
    HouseState(data.phase, data.last_changed,
               IF IsNone(data.last_reading) THEN None
               ELSE Some(Reading(Get(data.last_reading).timestamp,
                                 Get(data.last_reading).voltage,
                                 Get(data.last_reading).power_kw)),
               data.smoothed_power_kw)

\* DataStorage.save_houses: the content of houses.json
SaveHouses(hs) == [i \in 1..Len(hs) |-> ToDict(i, hs[i])]

\* DataStorage.load_houses
LoadHouses(data) == [i \in 1..Len(data) |-> FromDict(data[i])]

\* HouseRegistry.add_house
AddHouse(st, house_id, initial_phase) ==
    LET hs == DictSet(st.houses, house_id,
                      HouseState(initial_phase, EPOCH, None, None))
    IN  [st EXCEPT !.houses = hs, !.disk = SaveHouses(hs),
                   !.ret = [op |-> "add_house", raised |-> "none"]]

\* a faulty update_reading that does not test the id and so creates a house
\* for a reading of an id it does not know
UpdateReadingUnchecked(st, house_id, voltage, power_kw, t) ==
    LET old == IF Registered(st.houses, house_id) THEN st.houses[house_id]
               ELSE HouseState("L1", EPOCH, None, None)
        hs == DictSet(st.houses, house_id,
                      [old EXCEPT
                          !.last_reading = Some(Reading(t, voltage, power_kw)),
                          !.smoothed_power_kw =
                              Some(Ewma(old.smoothed_power_kw, power_kw))])
    IN  [st EXCEPT !.houses = hs, !.disk = SaveHouses(hs),
                   !.ret = [op |-> "update_reading", raised |-> "none"]]

\* HouseRegistry.update_reading
UpdateReading(st, house_id, voltage, power_kw, t) ==
    IF ~Registered(st.houses, house_id)
    THEN [st EXCEPT !.ret = [op |-> "update_reading", raised |-> "ValueError"]]
    ELSE LET old == st.houses[house_id]
             hs == [st.houses EXCEPT ![house_id] =
                        [old EXCEPT
                            !.last_reading = Some(Reading(t, voltage, power_kw)),
                            !.smoothed_power_kw =
                                Some(Ewma(old.smoothed_power_kw, power_kw))]]
         IN  [st EXCEPT !.houses = hs, !.disk = SaveHouses(hs),
                        !.ret = [op |-> "update_reading", raised |-> "none"]]

\* HouseRegistry.update_reading of src/utility.py: the HouseState of that
\* module has no smoothed power (None here); the reading is stored as it is
UpdateReadingPlain(st, house_id, voltage, power_kw, t) ==
    IF ~Registered(st.houses, house_id)
    THEN [st EXCEPT !.ret = [op |-> "update_reading", raised |-> "ValueError"]]
    ELSE LET hs == [st.houses EXCEPT ![house_id].last_reading =
                        Some(Reading(t, voltage, power_kw))]
         IN  [st EXCEPT !.houses = hs, !.disk = SaveHouses(hs),
                        !.ret = [op |-> "update_reading", raised |-> "none"]]

SwitchRecord(t, h, from, to, reason) ==
    [timestamp |-> t, house_id |-> h, from_phase |-> from, to_phase |-> to,
     reason |-> reason]

\* a faulty apply_switch that logs the switch twice
ApplySwitchLoggedTwice(st, house_id, new_phase, reason, t) ==
    IF ~Registered(st.houses, house_id)
    THEN [st EXCEPT !.ret = [op |-> "apply_switch", raised |-> "ValueError"]]
    ELSE LET old_phase == st.houses[house_id].phase
             hs == [st.houses EXCEPT ![house_id].phase = new_phase,
                                     ![house_id].last_changed = t]
             rec == SwitchRecord(t, house_id, old_phase, new_phase, reason)
         IN  [st EXCEPT !.houses = hs, !.disk = SaveHouses(hs),
                        !.history = Append(Append(@, rec), rec),
                        !.ret = [op |-> "apply_switch", raised |-> "none"]]

\* a faulty apply_switch that stamps and logs the switch and leaves the
\* house on its phase
ApplySwitchStampOnly(st, house_id, new_phase, reason, t) ==
    IF ~Registered(st.houses, house_id)
    THEN [st EXCEPT !.ret = [op |-> "apply_switch", raised |-> "ValueError"]]
    ELSE LET old_phase == st.houses[house_id].phase
             hs == [st.houses EXCEPT ![house_id].last_changed = t]
         IN  [st EXCEPT !.houses = hs, !.disk = SaveHouses(hs),
                        !.history = Append(@, SwitchRecord(t, house_id,
                                                old_phase, new_phase, reason)),
                        !.ret = [op |-> "apply_switch", raised |-> "none"]]

\* HouseRegistry.apply_switch
ApplySwitch(st, house_id, new_phase, reason, t) ==
    IF ~Registered(st.houses, house_id)
    THEN [st EXCEPT !.ret = [op |-> "apply_switch", raised |-> "ValueError"]]
    ELSE LET old_phase == st.houses[house_id].phase
             hs == [st.houses EXCEPT ![house_id].phase = new_phase,
                                     ![house_id].last_changed = t]
         IN  [st EXCEPT !.houses = hs, !.disk = SaveHouses(hs),
                        !.history = Append(@, SwitchRecord(t, house_id,
                                                old_phase, new_phase, reason)),
                        !.ret = [op |-> "apply_switch", raised |-> "none"]]

\* what can go wrong in the persistence calls of apply_switch: save_houses
\* fails before it writes (open), or while it writes (the "w" mode has
\* truncated houses.json, which then loads as {}), or
\* append_switch_history fails
NoFault == "none"
Faults == {NoFault, "save_houses", "save_houses_torn", "append_switch_history"}

\* a faulty apply_switch that takes the switch back when persistence fails
ApplySwitchRolledBack(st, house_id, new_phase, reason, t, fault) ==
    IF fault = NoFault THEN ApplySwitch(st, house_id, new_phase, reason, t)
    ELSE [st EXCEPT !.ret = [op |-> "apply_switch", raised |-> "OSError"]]

\* HouseRegistry.apply_switch with a persistence call that fails: the
\* exception of save_houses leaves the method (line 398), the exception of
\* append_switch_history is caught (lines 407-411)
ApplySwitchFaulty(st, house_id, new_phase, reason, t, fault) ==
    IF fault = NoFault \/ ~Registered(st.houses, house_id)
    THEN ApplySwitch(st, house_id, new_phase, reason, t)
    ELSE TheOne({
        IF fault = "save_houses"
        THEN [st EXCEPT !.houses = hs,
                        !.ret = [op |-> "apply_switch", raised |-> "OSError"]]
        ELSE IF fault = "save_houses_torn"
        THEN [st EXCEPT !.houses = hs, !.disk = <<>>,
                        !.ret = [op |-> "apply_switch", raised |-> "OSError"]]
        ELSE [st EXCEPT !.houses = hs, !.disk = SaveHouses(hs),
                        !.ret = [op |-> "apply_switch", raised |-> "none"]]
        : hs \in {[st.houses EXCEPT ![house_id].phase = new_phase,
                                    ![house_id].last_changed = t]}})

\* a faulty reset that also forgets when each house was last switched
ResetStateOnStartForgetsSwitch(hs) ==
    [i \in 1..Len(hs) |->
        [hs[i] EXCEPT !.last_reading = None, !.smoothed_power_kw = None,
                      !.last_changed = EPOCH]]

\* HouseRegistry._reset_state_on_start (RESET_STATE_ON_START = True)
ResetStateOnStart(hs) ==
    [i \in 1..Len(hs) |->
        [hs[i] EXCEPT !.last_reading = None, !.smoothed_power_kw = None]]

\* PhaseBalancingController.__init__ of a new process on the same data
\* directory: HouseRegistry.__init__ loads houses.json and resets the
\* readings; the mode state starts empty
Restart(st) ==
    LET hs == ResetStateOnStart(LoadHouses(st.disk))
    IN  [st EXCEPT !.houses = hs, !.disk = SaveHouses(hs),
                   !.last_mode = NoMode, !.pending_mode = NoMode,
                   !.pending_since = None,
                   !.ret = [op |-> "start", raised |-> "none"]]

-----------------------------------------------------------------------------
(* main.py: PhaseBalancingController *)

\* a faulty _stable_mode that keeps the pending window when the detected
\* mode agrees with the confirmed one
StableModeNoReset(st, detected_mode, t) ==
    IF st.last_mode = NoMode
    THEN [last_mode |-> detected_mode,
          pending_mode |-> detected_mode, pending_since |-> Some(t),
          result |-> detected_mode]
    ELSE IF detected_mode = st.last_mode
    THEN [last_mode |-> st.last_mode,
          pending_mode |-> st.pending_mode, pending_since |-> st.pending_since,
          result |-> st.last_mode]
    ELSE IF st.pending_mode # detected_mode
    THEN [last_mode |-> st.last_mode,
          pending_mode |-> detected_mode, pending_since |-> Some(t),
          result |-> st.last_mode]
    ELSE IF ~IsNone(st.pending_since)
            /\ t - Get(st.pending_since) >= MODE_STABLE_SECONDS
    THEN [last_mode |-> detected_mode,
          pending_mode |-> st.pending_mode, pending_since |-> st.pending_since,
          result |-> detected_mode]
    ELSE [last_mode |-> st.last_mode,
          pending_mode |-> st.pending_mode, pending_since |-> st.pending_since,
          result |-> st.last_mode]

\* a faulty _stable_mode that starts the pending window again at every
\* observation of the pending mode
StableModeRestartsWindow(st, detected_mode, t) ==
    IF st.last_mode = NoMode
    THEN [last_mode |-> detected_mode,
          pending_mode |-> detected_mode, pending_since |-> Some(t),
          result |-> detected_mode]
    ELSE IF detected_mode = st.last_mode
    THEN [last_mode |-> st.last_mode,
          pending_mode |-> detected_mode, pending_since |-> Some(t),
          result |-> st.last_mode]
    ELSE [last_mode |-> st.last_mode,
          pending_mode |-> detected_mode, pending_since |-> Some(t),
          result |-> st.last_mode]

\* a faulty _stable_mode that promotes a pending mode without waiting
StableModeNoWait(st, detected_mode, t) ==
    IF st.last_mode = NoMode
    THEN [last_mode |-> detected_mode,
          pending_mode |-> detected_mode, pending_since |-> Some(t),
          result |-> detected_mode]
    ELSE IF detected_mode = st.last_mode
    THEN [last_mode |-> st.last_mode,
          pending_mode |-> detected_mode, pending_since |-> Some(t),
          result |-> st.last_mode]
    ELSE IF st.pending_mode # detected_mode
    THEN [last_mode |-> st.last_mode,
          pending_mode |-> detected_mode, pending_since |-> Some(t),
          result |-> st.last_mode]
    ELSE [last_mode |-> detected_mode,
          pending_mode |-> st.pending_mode, pending_since |-> st.pending_since,
          result |-> detected_mode]

\* PhaseBalancingController._stable_mode: the new mode state and the mode
\* returned (_mode_since is written and never read; it is left out)
StableMode(st, detected_mode, t) ==
    IF st.last_mode = NoMode
    THEN [last_mode |-> detected_mode,
          pending_mode |-> detected_mode, pending_since |-> Some(t),
          result |-> detected_mode]
    ELSE IF detected_mode = st.last_mode
    THEN [last_mode |-> st.last_mode,
          pending_mode |-> detected_mode, pending_since |-> Some(t),
          result |-> st.last_mode]
    ELSE IF st.pending_mode # detected_mode
    THEN [last_mode |-> st.last_mode,
          pending_mode |-> detected_mode, pending_since |-> Some(t),
          result |-> st.last_mode]
    ELSE IF ~IsNone(st.pending_since)
            /\ t - Get(st.pending_since) >= MODE_STABLE_SECONDS
    THEN [last_mode |-> detected_mode,
          pending_mode |-> st.pending_mode, pending_since |-> st.pending_since,
          result |-> detected_mode]
    ELSE [last_mode |-> st.last_mode,
          pending_mode |-> st.pending_mode, pending_since |-> st.pending_since,
          result |-> st.last_mode]

\* a faulty gate that lets every house through
InCooldownNever(house, t) == FALSE

\* run_cycle lines 109-116: the cooldown gate
InCooldown(house, t) == t - house.last_changed < MIN_SWITCH_GAP_SEC

\* a faulty gate that does not look at the sign of the improvement
PassesStrengthGateNoSign(rec, house, imbalance) ==
    IF HasConflictTag(rec.reason) THEN TRUE
    ELSE LET p == IF IsNone(house.last_reading) THEN 0
                  ELSE Get(house.last_reading).power_kw
         IN  Abs(p) >= 10 \/ imbalance >= 15 \/ rec.improved_kw >= 5

\* run_cycle lines 118-151: the improvement / strength gate
PassesStrengthGate(rec, house, imbalance) ==
    IF HasConflictTag(rec.reason) THEN TRUE
    ELSE IF rec.improved_kw <= 0 THEN FALSE
    ELSE LET p == IF IsNone(house.last_reading) THEN 0
                  ELSE Get(house.last_reading).power_kw
             strong_house == Abs(p) >= 10
             high_imbalance == imbalance >= 15
             good_improvement == rec.improved_kw >= 5
         IN  strong_house \/ high_imbalance \/ good_improvement

\* run_cycle lines 103-151: the recommendation that survives validation
ValidateRecommendation(recommendation, hs, t, imbalance) ==
    IF IsNone(recommendation) THEN None
    ELSE IF ~Registered(hs, Get(recommendation).house_id) THEN None
    ELSE LET house == hs[Get(recommendation).house_id]
         IN  IF InCooldown(house, t) THEN None
             ELSE IF ~PassesStrengthGate(Get(recommendation), house, imbalance)
             THEN None
             ELSE recommendation

\* a faulty status that never carries the recommendation
StatusWithoutRecommendation(mode, imbalance, phase_stats, recommendation) ==
    [op |-> "run_cycle", raised |-> "none", mode |-> mode,
     imbalance_kw |-> imbalance, phase_stats |-> phase_stats,
     recommendation |-> None]

\* the status dict run_cycle returns
Status(mode, imbalance, phase_stats, recommendation) ==
    [op |-> "run_cycle", raised |-> "none", mode |-> mode,
     imbalance_kw |-> imbalance, phase_stats |-> phase_stats,
     recommendation |-> recommendation]

\* PhaseBalancingController.run_cycle, with the persistence fault that
\* meets its apply_switch call
RunCycleFaulty(st, t, fault) ==
    IF GetPhaseStatsRaises(st.houses, t)
    THEN [st EXCEPT !.ret = [op |-> "run_cycle", raised |-> "KeyError"]]
    ELSE
    LET \* lines 172-187: `except Exception as e: status["apply_error"] = ...`
        Applied(mode, imbalance, phase_stats, recommendation, st2) ==
            IF st2.ret.raised = "none"
            THEN [st2 EXCEPT !.ret = Status(mode, imbalance, phase_stats,
                                            recommendation)]
            ELSE [st2 EXCEPT !.ret = [apply_error |-> st2.ret.raised]
                                     @@ Status(mode, imbalance, phase_stats,
                                               recommendation)]
        \* lines 89-187, after the health check
        Balance(st1, mode, imbalance, phase_stats) ==
            TheOne({IF IsNone(recommendation)
                    THEN [st1 EXCEPT !.ret = Status(mode, imbalance,
                                                    phase_stats, None)]
                    ELSE Applied(mode, imbalance, phase_stats, recommendation,
                            ApplySwitchFaulty(st1,
                                Get(recommendation).house_id,
                                Get(recommendation).to_phase,
                                Get(recommendation).reason, t, fault))
                    : recommendation \in {ValidateRecommendation(
                        IF mode = "EXPORT"
                        THEN ExportFindBestSwitch(st.houses, t)
                        ELSE ConsumeFindBestSwitch(st.houses, t),
                        st.houses, t, imbalance)}})
        \* lines 62-87
        Analyze(phase_stats, sm) ==
            TheOne({IF ~DictTruthy(DetectVoltageIssues(phase_stats))
                       /\ ~DictTruthy(DetectPowerIssues(phase_stats))
                       /\ imbalance < MIN_IMBALANCE_KW
                    THEN [st1 EXCEPT !.ret = Status(sm.result, imbalance,
                                                    phase_stats, None)]
                    ELSE Balance(st1, sm.result, imbalance, phase_stats)
                    : imbalance \in {GetImbalance(phase_stats)},
                      st1 \in {[st EXCEPT !.last_mode = sm.last_mode,
                                          !.pending_mode = sm.pending_mode,
                                          !.pending_since = sm.pending_since]}})
    IN  TheOne({Analyze(phase_stats, sm)
                : phase_stats \in {GetPhaseStats(st.houses, t)},
                  sm \in {StableMode(st, DetectMode(st.houses, t), t)}})

\* PhaseBalancingController.run_cycle
RunCycle(st, t) == RunCycleFaulty(st, t, NoFault)

-----------------------------------------------------------------------------
(* app.py: the telemetry endpoint *)

\* telemetry(data) of src/backend/app.py: auto-register, update the reading,
\* run one cycle and answer with the phase the reporting house is on
Telemetry(st, house_id, voltage, power_kw, phase, t) ==
    LET Updated(st1) == TheOne({RunCycle(st2, t)
            : st2 \in {UpdateReading(st1, house_id, voltage, power_kw, t)}})
    IN  TheOne({IF st3.ret.raised # "none"
                THEN [st3 EXCEPT !.ret = [op |-> "telemetry",
                                          house_id |-> house_id,
                                          phase |-> phase,
                                          power_kw |-> power_kw,
                                          raised |-> st3.ret.raised]]
                ELSE [st3 EXCEPT !.ret = [op |-> "telemetry", raised |-> "none",
                                  house_id |-> house_id, phase |-> phase,
                                  power_kw |-> power_kw,
                                  new_phase |-> st3.houses[house_id].phase,
                                  status |-> st3.ret]]
                : st3 \in {Updated(TheOne({IF ~Registered(st.houses, house_id)
                                           THEN AddHouse(st, house_id, phase)
                                           ELSE st : x \in {0}}))}})

\* telemetry(data) of src/app.py: auto-register, then line 76 calls
\* update_reading(house_id, voltage, power_kw) with three arguments; the
\* method takes four (house_id, voltage, current, power_kw) in both utility
\* modules, so the call raises TypeError, which the handler does not catch.
\* Lines 78-97 (the cycle, and the answer made of recommendation["to_phase"])
\* are never reached.
TelemetryCompact(st, house_id, voltage, power_kw, phase, t) ==
    TheOne({[st1 EXCEPT !.ret = [op |-> "telemetry", house_id |-> house_id,
                                 phase |-> phase, power_kw |-> power_kw,
                                 raised |-> "TypeError"]]
            : st1 \in {IF ~Registered(st.houses, house_id)
                       THEN AddHouse(st, house_id, phase) ELSE st}})

-----------------------------------------------------------------------------
(* The state machine *)

Install(st) ==
    /\ houses' = st.houses
    /\ disk' = st.disk
    /\ history' = st.history
    /\ last_mode' = st.last_mode
    /\ pending_mode' = st.pending_mode
    /\ pending_since' = st.pending_since
    /\ ret' = st.ret

\* the locals of a request thread that handles no request
IdleLocals ==
    [house_id |-> 0, mode |-> NoMode, imbalance |-> 0,
     recommendation |-> None, seen |-> <<>>]

\* a fresh process on an empty data directory
Init ==
    /\ houses = <<>>
    /\ disk = <<>>
    /\ history = <<>>
    /\ now = 0
    /\ last_mode = NoMode
    /\ pending_mode = NoMode
    /\ pending_since = None
    /\ ret = [op |-> "start", raised |-> "none"]
    /\ flip_since = None
    /\ pc = [t \in Threads |-> "idle"]
    /\ loc = [t \in Threads |-> IdleLocals]

\* ids are taken in the order 1, 2, ...
KnownOrNext(h) == h \in HouseIds /\ h <= Len(houses) + 1

\* the switch history is followed for MaxSwitches records
HistoryFits(st) == Len(st.history) <= MaxSwitches

\* registry.add_house(h, phase), also for an id that is registered
DoAddHouse ==
    \E h \in HouseIds, ph \in ReportedPhases :
        /\ KnownOrNext(h)
        /\ \E st \in {AddHouse(ProgramState, h, ph)} : Install(st)
        /\ UNCHANGED <<now, flip_since, threadVars>>

\* registry.add_house(h, phase) with any phase name
DoAddHouseAny ==
    \E h \in HouseIds, ph \in PhaseSet \cup {BadPhase} :
        /\ KnownOrNext(h)
        /\ \E st \in {AddHouse(ProgramState, h, ph)} : Install(st)
        /\ UNCHANGED <<now, flip_since, threadVars>>

\* registry.update_reading(h, voltage, current, power)
DoUpdateReading ==
    \E h \in HouseIds, v \in Voltages, p \in Powers :
        /\ KnownOrNext(h)
        /\ IF Registered(houses, h)
           THEN EwmaExact(houses[h].smoothed_power_kw, p) ELSE TRUE
        /\ \E st \in {UpdateReading(ProgramState, h, v, p, now)} : Install(st)
        /\ UNCHANGED <<now, flip_since, threadVars>>

\* registry.update_reading(h, voltage, current, power) of src/utility.py
DoUpdateReadingPlain ==
    \E h \in HouseIds, v \in Voltages, p \in Powers :
        /\ KnownOrNext(h)
        /\ \E st \in {UpdateReadingPlain(ProgramState, h, v, p, now)} :
               Install(st)
        /\ UNCHANGED <<now, flip_since, threadVars>>

\* the last call was a run_cycle that returned without a recommendation
QuietCycle(r) ==
    r.op = "run_cycle" /\ r.raised = "none" /\ IsNone(r.recommendation)

\* controller.run_cycle(); the observer notes whether the call follows a
\* run_cycle without a recommendation, no other call in between
DoRunCycle ==
    \E st \in {RunCycle(ProgramState, now)} :
        /\ HistoryFits(st)
        /\ Install([st EXCEPT !.ret = @ @@ [follows_quiet |-> QuietCycle(ret)]])
        /\ UNCHANGED <<now, flip_since, threadVars>>

\* controller.run_cycle() while the data directory may fail
DoRunCycleFaulty ==
    \E fault \in Faults :
        \E st \in {RunCycleFaulty(ProgramState, now, fault)} :
            /\ HistoryFits(st)
            /\ Install(st)
            /\ UNCHANGED <<now, flip_since, threadVars>>

\* POST /telemetry
DoTelemetry ==
    \E h \in HouseIds, v \in Voltages, p \in Powers,
       ph \in ReportedPhases :
        /\ KnownOrNext(h)
        /\ IF Registered(houses, h)
           THEN EwmaExact(houses[h].smoothed_power_kw, p) ELSE TRUE
        /\ \E st \in {Telemetry(ProgramState, h, v, p, ph, now)} :
               HistoryFits(st) /\ Install(st)
        /\ UNCHANGED <<now, flip_since, threadVars>>

\* POST /telemetry of src/app.py
DoTelemetryCompact ==
    \E h \in HouseIds, v \in Voltages, p \in Powers,
       ph \in ReportedPhases :
        /\ KnownOrNext(h)
        /\ IF Registered(houses, h)
           THEN EwmaExact(houses[h].smoothed_power_kw, p) ELSE TRUE
        /\ \E st \in {TelemetryCompact(ProgramState, h, v, p, ph, now)} :
               HistoryFits(st) /\ Install(st)
        /\ UNCHANGED <<now, flip_since, threadVars>>

\* registry.apply_switch(h, phase, reason) called directly
DoApplySwitch ==
    \E h \in HouseIds, ph \in SwitchTargets :
        /\ KnownOrNext(h)
        /\ \E st \in {ApplySwitch(ProgramState, h, ph, ReasonManual, now)} :
               HistoryFits(st) /\ Install(st)
        /\ UNCHANGED <<now, flip_since, threadVars>>

\* the process is stopped and started again
DoRestart ==
    /\ \E st \in {Restart(ProgramState)} : Install(st)
    /\ UNCHANGED <<now, flip_since, threadVars>>

\* the clock advances by one tick
Tick ==
    /\ (now % READING_EXPIRY_SECONDS) + TickStep <= MaxTicks * TickStep
    /\ now' = now + TickStep
    /\ UNCHANGED <<storeVars, modeVars, ret, flip_since, threadVars>>

\* nothing happens for the length of the expiry window
Pause ==
    /\ now < MaxPauses * READING_EXPIRY_SECONDS
    /\ now' = now + READING_EXPIRY_SECONDS
    /\ UNCHANGED <<storeVars, modeVars, ret, flip_since, threadVars>>

\* PhaseRegistry.get_phase_stats() called on its own
DoGetPhaseStats ==
    /\ ret' = IF GetPhaseStatsRaises(houses, now)
              THEN [op |-> "get_phase_stats", raised |-> "KeyError"]
              ELSE [op |-> "get_phase_stats", raised |-> "none",
                    value |-> GetPhaseStats(houses, now)]
    /\ UNCHANGED <<storeVars, modeVars, now, flip_since, threadVars>>

\* PhaseRegistry.get_imbalance(phase_stat) called on its own, with the
\* PhaseStats of any three phase totals
DoGetImbalance ==
    \E a, b, c \in PhaseTotalInputs :
        /\ ret' = [op |-> "get_imbalance", raised |-> "none",
                   totals |-> <<a, b, c>>,
                   value |-> GetImbalance(
                       <<[phase |-> "L1", total_power_kw |-> a,
                          house_count |-> 1, voltage_sum |-> 230],
                         [phase |-> "L2", total_power_kw |-> b,
                          house_count |-> 1, voltage_sum |-> 230],
                         [phase |-> "L3", total_power_kw |-> c,
                          house_count |-> 1, voltage_sum |-> 230]>>)]
        /\ UNCHANGED <<storeVars, modeVars, now, flip_since, threadVars>>

\* the stores of n registered houses that have each reported once, at the
\* start, a power of P from any of the phases
StoresOf(n, P) ==
    {[i \in 1..n |-> HouseState(ph[i], EPOCH, Some(Reading(0, 230, pw[i])),
                                Some(pw[i]))]
        : ph \in [1..n -> PhaseSet], pw \in [1..n -> P]}

\* the process after the registrations and first readings of a scenario
InitScenario ==
    /\ houses \in StoresOf(ScenarioHouses, ScenarioPowers)
                    \cup StoresOf(ScenarioHouses + 1, ConsumerPowers)
    /\ disk = SaveHouses(houses)
    /\ history = <<>>
    /\ now = 0
    /\ last_mode = NoMode
    /\ pending_mode = NoMode
    /\ pending_since = None
    /\ ret = [op |-> "update_reading", raised |-> "none"]
    /\ flip_since = None
    /\ pc = [t \in Threads |-> "idle"]
    /\ loc = [t \in Threads |-> IdleLocals]

\* the stores of n registered houses that have each reported once, at the
\* start, a power of P at a voltage of V from any of the phases
VoltageStoresOf(n, P, V) ==
    {[i \in 1..n |-> HouseState(ph[i], EPOCH, Some(Reading(0, vo[i], pw[i])),
                                Some(pw[i]))]
        : ph \in [1..n -> PhaseSet], pw \in [1..n -> P], vo \in [1..n -> V]}

\* the process after the registrations and first readings of houses on
\* lines of low, normal and high voltage
InitVoltage ==
    /\ houses \in VoltageStoresOf(ScenarioHouses, IssuePowers, IssueVoltages)
    /\ disk = SaveHouses(houses)
    /\ history = <<>>
    /\ now = 0
    /\ last_mode = NoMode
    /\ pending_mode = NoMode
    /\ pending_since = None
    /\ ret = [op |-> "update_reading", raised |-> "none"]
    /\ flip_since = None
    /\ pc = [t \in Threads |-> "idle"]
    /\ loc = [t \in Threads |-> IdleLocals]

\* the smoothed power of a house after update_reading calls with the powers
\* of seq
RECURSIVE SmoothedAfter(_)
SmoothedAfter(seq) ==
    IF Len(seq) = 0 THEN None
    ELSE Some(Ewma(SmoothedAfter(SubSeq(seq, 1, Len(seq) - 1)), seq[Len(seq)]))

\* the stores of n registered houses on any of the phases, each after the
\* update_reading calls of one of the histories of H
HistoryStoresOf(n, H) ==
    {[i \in 1..n |-> HouseState(ph[i], EPOCH,
                                Some(Reading(0, 230, hi[i][Len(hi[i])])),
                                SmoothedAfter(hi[i]))]
        : ph \in [1..n -> PhaseSet], hi \in [1..n -> H]}

\* the process after the registrations and the readings of houses, some of
\* which have reported twice
InitSmoothed ==
    /\ houses \in HistoryStoresOf(ScenarioHouses, ReadingHistories)
    /\ disk = SaveHouses(houses)
    /\ history = <<>>
    /\ now = 0
    /\ last_mode = NoMode
    /\ pending_mode = NoMode
    /\ pending_since = None
    /\ ret = [op |-> "update_reading", raised |-> "none"]
    /\ flip_since = None
    /\ pc = [t \in Threads |-> "idle"]
    /\ loc = [t \in Threads |-> IdleLocals]

\* the stores of n registered houses on any of the phases that have each
\* reported a power of P once, at one of the instants of T
TimedStoresOf(n, P, T) ==
    {[i \in 1..n |-> HouseState(ph[i], EPOCH,
                                Some(Reading(ts[i], 230, pw[i])), Some(pw[i]))]
        : ph \in [1..n -> PhaseSet], pw \in [1..n -> P], ts \in [1..n -> T]}

\* the process one tick after the expiry window; each house reported either
\* at the start and never since, or just now
InitStale ==
    /\ now = READING_EXPIRY_SECONDS + TickStep
    /\ houses \in TimedStoresOf(ScenarioHouses, StalePowers, {0, now})
    /\ disk = SaveHouses(houses)
    /\ history = <<>>
    /\ last_mode = NoMode
    /\ pending_mode = NoMode
    /\ pending_since = None
    /\ ret = [op |-> "update_reading", raised |-> "none"]
    /\ flip_since = None
    /\ pc = [t \in Threads |-> "idle"]
    /\ loc = [t \in Threads |-> IdleLocals]

\* consumption_logic.find_best_switch() called on its own
DoConsumeSearch ==
    /\ ret' = IF GetPhaseStatsRaises(houses, now)
              THEN [op |-> "consume.find_best_switch", raised |-> "KeyError"]
              ELSE [op |-> "consume.find_best_switch", raised |-> "none",
                    value |-> ConsumeFindBestSwitch(houses, now)]
    /\ UNCHANGED <<storeVars, modeVars, now, flip_since, threadVars>>

\* export_logic.find_best_switch() called on its own
DoExportSearch ==
    /\ ret' = IF GetPhaseStatsRaises(houses, now)
              THEN [op |-> "export.find_best_switch", raised |-> "KeyError"]
              ELSE [op |-> "export.find_best_switch", raised |-> "none",
                    value |-> ExportFindBestSwitch(houses, now)]
    /\ UNCHANGED <<storeVars, modeVars, now, flip_since, threadVars>>

\* PhaseRegistry.get_phase_internal_imbalance(phase) called on its own
DoInternalImbalance ==
    \E p \in PhaseSet :
        /\ ret' = [op |-> "get_phase_internal_imbalance", raised |-> "none",
                   phase |-> p,
                   value |-> GetPhaseInternalImbalance(houses, now, p)]
        /\ UNCHANGED <<storeVars, modeVars, now, flip_since, threadVars>>

\* the stored instant ts after d seconds have passed, on a clock whose 0 is
\* moved along with the present: the instant is d seconds further in the
\* past.  Ages are followed up to MaxAge, which is beyond the cooldown and
\* the mode-stability window; the epoch stays the epoch.
MaxAge == 20

ElapseStamp(ts, d) == IF ts = EPOCH THEN EPOCH ELSE Max2(ts - d, -MaxAge)

\* the registry after d seconds have passed
ElapseHouses(hs, d) ==
    [i \in 1..Len(hs) |->
        [hs[i] EXCEPT
            !.last_changed = ElapseStamp(@, d),
            !.last_reading =
                IF IsNone(@) THEN None
                ELSE Some([Get(@) EXCEPT !.timestamp = ElapseStamp(@, d)])]]

\* the program state after d seconds have passed
Elapse(st, d) ==
    [st EXCEPT
        !.houses = ElapseHouses(@, d),
        !.disk = SaveHouses(ElapseHouses(LoadHouses(@), d)),
        !.history = [k \in 1..Len(@) |->
                        [@[k] EXCEPT !.timestamp = ElapseStamp(@, d)]],
        !.pending_since = IF IsNone(@) THEN None
                          ELSE Some(ElapseStamp(Get(@), d))]

\* the last MaxSwitches records of the switch history
Recent(log) ==
    IF Len(log) <= MaxSwitches THEN log
    ELSE SubSeq(log, Len(log) - MaxSwitches + 1, Len(log))

\* the houses of a scenario have registered and reported once
InitSteady ==
    /\ houses \in StoresOf(MaxHouses, Powers)
    /\ disk = SaveHouses(houses)
    /\ history = <<>>
    /\ now = 0
    /\ last_mode = NoMode
    /\ pending_mode = NoMode
    /\ pending_since = None
    /\ ret = [op |-> "update_reading", raised |-> "none"]
    /\ flip_since = None
    /\ pc = [t \in Threads |-> "idle"]
    /\ loc = [t \in Threads |-> IdleLocals]

\* a house submits the power of its last reading once more
DoResubmit ==
    \E h \in 1..Len(houses) :
        /\ ~IsNone(houses[h].last_reading)
        /\ \E st \in {UpdateReading(ProgramState, h,
                                     Get(houses[h].last_reading).voltage,
                                     Get(houses[h].last_reading).power_kw,
                                     now)} : Install(st)
        /\ UNCHANGED <<now, flip_since, threadVars>>

\* controller.run_cycle(); the switch history is followed for its last
\* MaxSwitches records
DoSteadyCycle ==
    /\ \E st \in {RunCycle(ProgramState, now)} :
           Install([st EXCEPT !.history = Recent(@)])
    /\ UNCHANGED <<now, flip_since, threadVars>>

\* one clock tick passes
DoElapse ==
    /\ \E st \in {Elapse(ProgramState, TickStep)} : Install(st)
    /\ UNCHANGED <<now, flip_since, threadVars>>

\* the modes detect_mode returns
Modes == {"EXPORT", "CONSUME"}

\* controller._stable_mode(detected_mode); the observer notes when the
\* detected mode began to differ from the confirmed one
DoStableMode ==
    \E d \in Modes :
        \E sm \in {StableMode(ProgramState, d, now)} :
            /\ last_mode' = sm.last_mode
            /\ pending_mode' = sm.pending_mode
            /\ pending_since' = sm.pending_since
            /\ ret' = [op |-> "_stable_mode", raised |-> "none",
                       detected |-> d, result |-> sm.result,
                       before |-> last_mode, flip_before |-> flip_since]
            /\ flip_since' = IF d = sm.last_mode THEN None
                             ELSE IF IsNone(flip_since) THEN Some(now)
                             ELSE flip_since
            /\ UNCHANGED <<storeVars, now, threadVars>>

\* the clock advances between two mode observations
TickMode ==
    /\ now + ModeStep <= MaxModeTicks * ModeStep
    /\ now' = now + ModeStep
    /\ UNCHANGED <<storeVars, modeVars, ret, flip_since, threadVars>>

\* some seconds pass between two mode observations, on the clock whose 0
\* moves along with the present
DoElapseMode ==
    \E d \in ObservationGaps :
        /\ \E st \in {Elapse(ProgramState, d)} :
               Install([st EXCEPT !.ret = [op |-> "sleep", raised |-> "none"]])
        /\ flip_since' = IF IsNone(flip_since) THEN None
                         ELSE Some(ElapseStamp(Get(flip_since), d))
        /\ UNCHANGED <<now, threadVars>>

-----------------------------------------------------------------------------
(* app.py: POST /telemetry handled by the threads of the server's pool.  No
   lock is taken anywhere; a thread may be suspended between any two
   statements, here between the calls that read or write the store. *)

\* a thread takes a request and tests "house_id not in registry.houses"
TelemetryCheck(t) ==
    /\ pc[t] = "idle"
    /\ \E h \in HouseIds :
        /\ KnownOrNext(h)
        /\ loc' = [loc EXCEPT ![t] = [IdleLocals EXCEPT !.house_id = h]]
        /\ pc' = [pc EXCEPT ![t] = IF Registered(houses, h)
                                   THEN "update" ELSE "register"]
    /\ UNCHANGED <<storeVars, modeVars, ret, now, flip_since>>

\* registry.add_house(house_id, data.phase)
TelemetryRegister(t) ==
    /\ pc[t] = "register"
    /\ \E ph \in ReportedPhases :
          \E st \in {AddHouse(ProgramState, loc[t].house_id, ph)} : Install(st)
    /\ pc' = [pc EXCEPT ![t] = "update"]
    /\ UNCHANGED <<loc, now, flip_since>>

\* registry.update_reading(house_id, voltage, current, power_kw)
TelemetryUpdate(t) ==
    /\ pc[t] = "update"
    /\ \E v \in Voltages, p \in Powers :
        /\ EwmaExact(houses[loc[t].house_id].smoothed_power_kw, p)
        /\ \E st \in {UpdateReading(ProgramState, loc[t].house_id, v, p, now)} :
               Install(st)
    /\ pc' = [pc EXCEPT ![t] = "analyze"]
    /\ UNCHANGED <<loc, now, flip_since>>

\* the request ends: with the phase of its house, or with the exception
\* that left run_cycle
TelemetryReturn(t, raised, hs) ==
    /\ ret' = IF raised # "none"
              THEN [op |-> "telemetry", raised |-> raised]
              ELSE [op |-> "telemetry", raised |-> "none",
                    new_phase |-> hs[loc[t].house_id].phase]
    /\ pc' = [pc EXCEPT ![t] = "idle"]
    /\ loc' = [loc EXCEPT ![t] = IdleLocals]

\* run_cycle lines 62-87: statistics, mode, imbalance and the health check
CycleAnalyze(t) ==
    /\ pc[t] = "analyze"
    /\ IF GetPhaseStatsRaises(houses, now)
       THEN /\ TelemetryReturn(t, "KeyError", houses)
            /\ UNCHANGED <<storeVars, modeVars>>
       ELSE \E phase_stats \in {GetPhaseStats(houses, now)},
               sm \in {StableMode(ProgramState, DetectMode(houses, now), now)} :
            \E imbalance \in {GetImbalance(phase_stats)} :
            \E healthy \in {/\ ~DictTruthy(DetectVoltageIssues(phase_stats))
                             /\ ~DictTruthy(DetectPowerIssues(phase_stats))
                             /\ imbalance < MIN_IMBALANCE_KW} :
                /\ last_mode' = sm.last_mode
                /\ pending_mode' = sm.pending_mode
                /\ pending_since' = sm.pending_since
                /\ UNCHANGED storeVars
                /\ IF healthy
                   THEN TelemetryReturn(t, "none", houses)
                   ELSE /\ loc' = [loc EXCEPT ![t].mode = sm.result,
                                              ![t].imbalance = imbalance,
                                              ![t].seen = houses]
                        /\ pc' = [pc EXCEPT ![t] = "search"]
                        /\ UNCHANGED ret
    /\ UNCHANGED <<now, flip_since>>

\* run_cycle lines 89-101: find_best_switch of the balancer of the mode,
\* which reads the store again
CycleSearch(t) ==
    /\ pc[t] = "search"
    /\ IF GetPhaseStatsRaises(houses, now)
       THEN TelemetryReturn(t, "KeyError", houses)
       ELSE /\ loc' = [loc EXCEPT ![t].recommendation =
                          IF loc[t].mode = "EXPORT"
                          THEN ExportFindBestSwitch(houses, now)
                          ELSE ConsumeFindBestSwitch(houses, now)]
            /\ pc' = [pc EXCEPT ![t] = "validate"]
            /\ UNCHANGED ret
    /\ UNCHANGED <<storeVars, modeVars, now, flip_since>>

\* run_cycle lines 103-151: the validation, against the store as it is now
\* and the imbalance computed at the start of the cycle
CycleValidate(t) ==
    /\ pc[t] = "validate"
    /\ \E recommendation \in
              {ValidateRecommendation(loc[t].recommendation, houses, now,
                                      loc[t].imbalance)} :
           IF IsNone(recommendation)
           THEN TelemetryReturn(t, "none", houses)
           ELSE /\ loc' = [loc EXCEPT ![t].recommendation = recommendation]
                /\ pc' = [pc EXCEPT ![t] = "apply"]
                /\ UNCHANGED ret
    /\ UNCHANGED <<storeVars, modeVars, now, flip_since>>

\* run_cycle lines 170-187: apply_switch, then the handler answers
CycleApply(t) ==
    /\ pc[t] = "apply"
    /\ \E rec \in {Get(loc[t].recommendation)} :
       \E st \in {ApplySwitch(ProgramState, rec.house_id, rec.to_phase,
                              rec.reason, now)} :
           /\ HistoryFits(st)
           /\ houses' = st.houses
           /\ disk' = st.disk
           /\ history' = st.history
           /\ TelemetryReturn(t, "none", st.houses)
    /\ UNCHANGED <<modeVars, now, flip_since>>

\* one step of one request thread
ThreadStep(t) ==
    \/ TelemetryCheck(t)
    \/ TelemetryRegister(t)
    \/ TelemetryUpdate(t)
    \/ CycleAnalyze(t)
    \/ CycleSearch(t)
    \/ CycleValidate(t)
    \/ CycleApply(t)

\* the controller driven through its registry and run_cycle
Next ==
    \/ DoAddHouse
    \/ DoUpdateReading
    \/ DoRunCycle
    \/ Tick

Spec == Init /\ [][Next]_vars

\* the registry on its own: direct calls and restarts
NextStore ==
    \/ DoAddHouse
    \/ DoUpdateReading
    \/ DoApplySwitch
    \/ DoRestart
    \/ Tick

SpecStore == Init /\ [][NextStore]_vars

\* the mode debounce on its own
NextMode ==
    \/ DoStableMode
    \/ TickMode

SpecMode == Init /\ [][NextMode]_vars

\* the mode debounce observed for ever: run_cycle keeps calling _stable_mode
\* and the clock keeps running
NextDebounce ==
    \/ DoStableMode
    \/ DoElapseMode

SpecDebounce ==
    /\ Init /\ [][NextDebounce]_vars
    /\ WF_vars(DoStableMode) /\ WF_vars(DoElapseMode)

\* the server: concurrent POST /telemetry requests that arrive within one
\* reading of the clock
NextServer == \E t \in Threads : ThreadStep(t)

SpecServer == Init /\ [][NextServer]_vars

\* the phase statistics over long pauses
NextScenario ==
    \/ DoRunCycle
    \/ DoConsumeSearch
    \/ DoExportSearch
    \/ DoInternalImbalance

SpecScenario == InitScenario /\ [][NextScenario]_vars

\* cycles on stores whose smoothed powers differ from the last readings
NextSmoothed ==
    \/ DoRunCycle
    \/ Tick

SpecSmoothed == InitSmoothed /\ [][NextSmoothed]_vars

\* cycles and searches on stores with stale readings
NextStale ==
    \/ DoRunCycle
    \/ DoConsumeSearch
    \/ DoExportSearch

SpecStale == InitStale /\ [][NextStale]_vars

\* the searches on stores with voltage issues
NextVoltage ==
    \/ DoConsumeSearch
    \/ DoExportSearch

SpecVoltage == InitVoltage /\ [][NextVoltage]_vars

\* cycles and restarts on a data directory that may fail
NextFaults ==
    \/ DoRunCycleFaulty
    \/ DoRestart

SpecFaults == InitScenario /\ [][NextFaults]_vars

\* the two telemetry endpoints, one request at a time, and the registry
\* calls of the other callers
NextTelemetry ==
    \/ DoAddHouse
    \/ DoUpdateReading
    \/ DoTelemetry
    \/ DoTelemetryCompact

SpecTelemetry == Init /\ [][NextTelemetry]_vars

\* the readings of the houses: both update_reading methods, restarts and
\* the clock
NextReadings ==
    \/ DoAddHouse
    \/ DoUpdateReading
    \/ DoUpdateReadingPlain
    \/ DoRestart
    \/ Tick

SpecReadings == Init /\ [][NextReadings]_vars

\* get_imbalance on its own
NextImbalance == DoGetImbalance

SpecImbalance == Init /\ [][NextImbalance]_vars

\* constant readings: the houses re-submit their power, cycles run and
\* time passes, for ever
NextSteady ==
    \/ DoResubmit
    \/ DoSteadyCycle
    \/ DoElapse

SpecSteady ==
    /\ InitSteady /\ [][NextSteady]_vars
    /\ WF_vars(DoResubmit) /\ WF_vars(DoSteadyCycle) /\ WF_vars(DoElapse)

NextStats ==
    \/ DoAddHouseAny
    \/ DoUpdateReading
    \/ DoGetPhaseStats
    \/ Pause

SpecStats == Init /\ [][NextStats]_vars

-----------------------------------------------------------------------------
(* Properties *)

\* the houses whose phase or last_changed differs between two stores
ChangedHouses(before, after) ==
    {h \in 1..Len(before) :
        IF h > Len(after) THEN TRUE
        ELSE \/ after[h].phase # before[h].phase
             \/ after[h].last_changed # before[h].last_changed}

\* C1: one run_cycle changes the phase and last_changed of at most one
\* house, registers and removes no house, and appends at most one record to
\* the switch history
C1_AtMostOneSwitchPerCycle ==
    [][DoRunCycle =>
        /\ Len(houses') = Len(houses)
        /\ Cardinality(ChangedHouses(houses, houses')) <= 1
        /\ Len(history') <= Len(history) + 1
        /\ SubSeq(history', 1, Len(history)) = history]_vars

\* a cycle has just moved one of two houses that were both on the phase it
\* relieved; the other one still reports from there
C1_Witness ==
    /\ ret.op = "run_cycle" /\ ret.raised = "none"
    /\ ~IsNone(ret.recommendation)
    /\ Len(history) = 1
    /\ \E h \in 1..Len(houses) :
          /\ h # Get(ret.recommendation).house_id
          /\ houses[h].phase = Get(ret.recommendation).from_phase
          /\ ~IsNone(houses[h].last_reading)

\* C2: two switches of one house recorded in the history are at least
\* MIN_SWITCH_GAP apart, unless the later one carries the CONFLICT tag
C2_CooldownBetweenSwitches ==
    \A i, j \in 1..Len(history) :
        (/\ i < j
         /\ history[i].house_id = history[j].house_id
         /\ ~HasConflictTag(history[j].reason))
        => history[j].timestamp - history[i].timestamp >= MIN_SWITCH_GAP_SEC

\* C3: while the detected mode has differed from the confirmed mode for
\* less than the stability duration, and when it equals the confirmed mode
\* again, _stable_mode returns the confirmed mode and leaves it unchanged
C3_ShortFlipKeepsConfirmedMode ==
    [][(DoStableMode /\ last_mode # NoMode) =>
        LET d == ret'.detected
            start == IF IsNone(flip_since) THEN now ELSE Get(flip_since)
        IN  IF d = last_mode \/ now - start < MODE_STABLE_SECONDS
            THEN ret'.result = last_mode /\ last_mode' = last_mode
            ELSE TRUE]_vars

\* the detected mode has just come back to the confirmed mode after it
\* differed for less than the stability duration
C3_Witness ==
    /\ ret.op = "_stable_mode"
    /\ ret.before # NoMode
    /\ ret.detected = ret.before
    /\ ret.result = ret.before
    /\ IF IsNone(ret.flip_before) THEN FALSE
       ELSE /\ now - Get(ret.flip_before) > 0
            /\ now - Get(ret.flip_before) < MODE_STABLE_SECONDS

\* C4: the confirmed mode changes only in a _stable_mode call: on the first
\* observation, which sets the confirmed and the pending mode to the detected
\* mode, or when the detected mode equals the pending mode, differs from the
\* confirmed mode and the pending window is at least the stability duration
\* old
C4_ConfirmedChangesOnlyByPromotion ==
    [][last_mode' # last_mode =>
        /\ DoStableMode
        /\ LET d == ret'.detected
           IN  IF last_mode = NoMode
               THEN last_mode' = d /\ pending_mode' = d
               ELSE IF IsNone(pending_since) THEN FALSE
               ELSE /\ d = pending_mode
                    /\ d # last_mode
                    /\ now - Get(pending_since) >= MODE_STABLE_SECONDS
                    /\ last_mode' = d]_vars

\* a _stable_mode call has just replaced one confirmed mode by the other
C4_Witness ==
    /\ ret.op = "_stable_mode"
    /\ ret.before \in Modes
    /\ ret.result # ret.before
    /\ last_mode = ret.result

\* C5: every registered house is on one of the phases L1, L2, L3
C5_PhaseInFixedSet ==
    \A h \in 1..Len(houses) : houses[h].phase \in PhaseSet

\* C6: run_cycle returns a status record, it raises nothing
C6_RunCycleReturns ==
    ret.op = "run_cycle" => ret.raised = "none"

\* C7: no step lowers the last_changed of a registered house
C7_LastChangedMonotone ==
    [][\A h \in 1..Len(houses) :
          h <= Len(houses') =>
            houses'[h].last_changed >= houses[h].last_changed]_vars

\* C8: with cycles running concurrently, two switches of one house recorded
\* in the history are at least MIN_SWITCH_GAP apart
C8_NoDoubleSwitchInCooldown ==
    \A i, j \in 1..Len(history) :
        (i < j /\ history[i].house_id = history[j].house_id)
        => history[j].timestamp - history[i].timestamp >= MIN_SWITCH_GAP_SEC

\* two cycles have both validated a switch of the same house and both are
\* about to apply it
C8_BothPassedValidation ==
    \E t, u \in Threads :
        /\ t # u
        /\ pc[t] = "apply" /\ pc[u] = "apply"
        /\ Get(loc[t].recommendation).house_id
             = Get(loc[u].recommendation).house_id

\* C9: every later read of one cycle (the search of a candidate and its
\* validation) finds the store as it was when the cycle computed its
\* statistics, mode and imbalance
C9_CycleReadsOneSnapshot ==
    [][\A t \in Threads :
          (CycleSearch(t) \/ CycleValidate(t)) => houses = loc[t].seen]_vars

\* a reading that exists and is not older than the expiry window
HasFreshReading(house, t) ==
    IF IsNone(house.last_reading) THEN FALSE
    ELSE t - Get(house.last_reading).timestamp <= READING_EXPIRY_SECONDS

\* the power a house with a reading stands for
ContributedPower(house) ==
    IF IsNone(house.smoothed_power_kw)
    THEN Get(house.last_reading).power_kw
    ELSE Get(house.smoothed_power_kw)

RECURSIVE SumOver(_, _)
SumOver(S, f) ==
    IF S = {} THEN 0
    ELSE LET x == CHOOSE y \in S : TRUE
         IN  f[x] + SumOver(S \ {x}, f)

\* the houses on a phase whose reading is fresh
FreshOnPhase(hs, t, phase) ==
    {h \in 1..Len(hs) : hs[h].phase = phase /\ HasFreshReading(hs[h], t)}

\* C10: the statistics a get_phase_stats call returns give, for each
\* phase, the number and the summed power of exactly the houses on that
\* phase whose reading exists and is not older than the expiry window
C10_StatsCountFreshReadingsOnly ==
    [][(DoGetPhaseStats /\ ret'.raised = "none") =>
        \A k \in 1..Len(PHASES) :
            LET members == FreshOnPhase(houses, now, PHASES[k])
                power == [h \in members |-> ContributedPower(houses[h])]
            IN  /\ ret'.value[k].phase = PHASES[k]
                /\ ret'.value[k].house_count = Cardinality(members)
                /\ ret'.value[k].total_power_kw = SumOver(members, power)]_vars

\* statistics were just taken while one house on a phase had an expired
\* reading and another house on the same phase a fresh one
C10_Witness ==
    /\ ret.op = "get_phase_stats" /\ ret.raised = "none"
    /\ \E h, g \in 1..Len(houses) :
          /\ houses[h].phase = houses[g].phase
          /\ ~IsNone(houses[h].last_reading)
          /\ ~HasFreshReading(houses[h], now)
          /\ HasFreshReading(houses[g], now)
          /\ \E k \in 1..Len(PHASES) :
                /\ PHASES[k] = houses[g].phase
                /\ ret.value[k].house_count = 1

\* a house whose last reading and effective power are both p at time t
ReportsPower(house, t, p) ==
    /\ ~IsNone(house.last_reading)
    /\ Get(house.last_reading).power_kw = p
    /\ EffectivePowerKw(house, t) = Some(p)

\* Scenario C on a store: every house is on L1, exporter e stands for
\* -1.4 kW and importer m for +1.2 kW, and nothing else is registered
ScenarioC(hs, t, e, m) ==
    /\ Len(hs) = 2 /\ e \in 1..Len(hs) /\ m \in 1..Len(hs) /\ e # m
    /\ \A i \in 1..Len(hs) : hs[i].phase = "L1"
    /\ ReportsPower(hs[e], t, -140)
    /\ ReportsPower(hs[m], t, 120)

\* the status carries a CONFLICT-tagged move of house e to a phase other
\* than L1, and the store has house e on that phase
ConflictMoveApplied(status, hs, e) ==
    /\ status.raised = "none"
    /\ ~IsNone(status.recommendation)
    /\ Get(status.recommendation).house_id = e
    /\ HasConflictTag(Get(status.recommendation).reason)
    /\ Get(status.recommendation).from_phase = "L1"
    /\ Get(status.recommendation).to_phase \in {"L2", "L3"}
    /\ hs[e].phase = Get(status.recommendation).to_phase

\* C11: a run_cycle that starts in Scenario C (all houses on L1, one
\* exporter of -1.4 kW, one importer of +1.2 kW, L2 and L3 empty) and works
\* in the export regime returns and applies a CONFLICT-tagged move of the
\* exporter to an empty phase
C11_ScenarioCMovesExporter ==
    [][\A e, m \in HouseIds :
          (/\ DoRunCycle /\ ScenarioC(houses, now, e, m)
           /\ ret'.raised = "none" /\ ret'.mode = "EXPORT")
              => ConflictMoveApplied(ret', houses', e)]_vars

\* a cycle has just moved the exporter of Scenario C off L1 with the
\* CONFLICT tag, although the move made the imbalance larger
C11_Witness ==
    /\ ret.op = "run_cycle"
    /\ \E e, m \in 1..Len(houses) :
          /\ e # m
          /\ ConflictMoveApplied(ret, houses, e)
          /\ Get(ret.recommendation).improved_kw < 0
          /\ ReportsPower(houses[e], now, -140)
          /\ houses[m].phase = "L1" /\ ReportsPower(houses[m], now, 120)

\* the phase totals of a store, in PHASES order
PhaseTotals(hs, t) ==
    [k \in 1..Len(PHASES) |-> GetPhaseStats(hs, t)[k].total_power_kw]

\* Scenario A: the totals of L1/L2/L3 are 5.0/1.0/1.0 kW
ScenarioATotals(hs, t) ==
    /\ ~GetPhaseStatsRaises(hs, t)
    /\ PhaseTotals(hs, t) = <<500, 100, 100>>

\* the consume search has just returned on the store as it stands
ConsumeSearchReturned ==
    ret.op = "consume.find_best_switch" /\ ret.raised = "none"

\* C12 as stated: with three houses on L1/L2/L3 whose totals are
\* 5.0/1.0/1.0 kW the consume search returns a move off L1 that leaves the
\* imbalance below 4.0 kW
C12_ScenarioAReturnsMove ==
    (/\ ConsumeSearchReturned
     /\ Len(houses) = 3 /\ ScenarioATotals(houses, now))
        => /\ ~IsNone(ret.value)
           /\ Get(ret.value).from_phase = "L1"
           /\ Get(ret.value).new_imbalance_kw < 400

\* C12: with phase totals of 5.0/1.0/1.0 kW the consume search returns no
\* move when there are three houses, one on each phase; any move it does
\* return takes a house off L1, to another phase, and leaves the imbalance
\* below 4.0 kW
C12_ScenarioAMoveNeedsSecondHouse ==
    (ConsumeSearchReturned /\ ScenarioATotals(houses, now))
        => /\ Len(houses) = 3 => IsNone(ret.value)
           /\ ~IsNone(ret.value) =>
                /\ Get(ret.value).from_phase = "L1"
                /\ Get(ret.value).to_phase \in {"L2", "L3"}
                /\ Get(ret.value).improved_kw > 0
                /\ Get(ret.value).new_imbalance_kw < 400

\* the consume search has returned a move for a store of four houses whose
\* totals are 5.0/1.0/1.0 kW
C12_Witness ==
    /\ ConsumeSearchReturned /\ ScenarioATotals(houses, now)
    /\ ~IsNone(ret.value)
    /\ Get(ret.value).from_phase = "L1"

\* Scenario B: the three phase totals are equal
BalancedTotals(hs, t) ==
    /\ ~GetPhaseStatsRaises(hs, t)
    /\ \A k \in 1..Len(PHASES) : PhaseTotals(hs, t)[k] = PhaseTotals(hs, t)[1]

\* C13: a run_cycle that finds the three phase totals equal returns a
\* status with recommendation = null and leaves every house, houses.json
\* and the switch history as they were
C13_BalancedTotalsNoSwitch ==
    [][(DoRunCycle /\ BalancedTotals(houses, now)) =>
        /\ ret'.raised = "none"
        /\ ret'.imbalance_kw = 0
        /\ IsNone(ret'.recommendation)
        /\ UNCHANGED storeVars]_vars

\* a cycle in the export regime has just returned without a recommendation
\* for totals that are equal although an exporter and importers share a
\* phase
C13_Witness ==
    /\ ret.op = "run_cycle" /\ ret.raised = "none"
    /\ ret.mode = "EXPORT" /\ IsNone(ret.recommendation)
    /\ BalancedTotals(houses, now)
    /\ GetPhaseInternalImbalance(houses, now, "L1").has_conflict

\* phase p holds exactly two reporting houses, one at -2.0 kW and one at
\* +2.0 kW
OpposedPair(hs, t, p) ==
    \E e, m \in 1..Len(hs) :
        /\ FreshOnPhase(hs, t, p) = {e, m}
        /\ EffectivePowerKw(hs[e], t) = Some(-200)
        /\ EffectivePowerKw(hs[m], t) = Some(200)

\* get_phase_internal_imbalance has just returned for a phase that holds
\* one house at -2.0 kW and one at +2.0 kW
InternalImbalanceOfOpposedPair ==
    /\ ret.op = "get_phase_internal_imbalance"
    /\ OpposedPair(houses, now, ret.phase)

\* C14: for a phase holding one house at -2.0 kW and one at +2.0 kW,
\* get_phase_internal_imbalance reports has_conflict = True and
\* internal_imbalance = 4.0 kW
C14_OpposedPairImbalance ==
    InternalImbalanceOfOpposedPair
        => /\ ret.value.has_conflict
           /\ ret.value.internal_imbalance = 400

\* the call has reported the conflict of such a phase, whose net total is
\* 0.0 kW
C14_Witness ==
    /\ InternalImbalanceOfOpposedPair
    /\ ret.value.has_conflict
    /\ \E k \in 1..Len(PHASES) :
          PHASES[k] = ret.phase /\ PhaseTotals(houses, now)[k] = 0

\* C15: a run_cycle that accepts no recommendation leaves every HouseState
\* as it was, so that the phase statistics after it are the ones it
\* computed; when it follows another such run_cycle with no telemetry in
\* between, its statistics are those of the first call
C15_QuietCyclesChangeNothing ==
    [][(DoRunCycle /\ QuietCycle(ret')) =>
        /\ houses' = houses
        /\ GetPhaseStats(houses', now') = ret'.phase_stats
        /\ QuietCycle(ret) => ret'.phase_stats = ret.phase_stats]_vars

\* a second run_cycle in a row has returned without a recommendation on a
\* store that is out of balance
C15_Witness ==
    /\ QuietCycle(ret) /\ ret.follows_quiet
    /\ ret.imbalance_kw >= MIN_IMBALANCE_KW
    /\ \E k \in 1..Len(PHASES) : ret.phase_stats[k].house_count > 0

\* the call raised and left the registry, houses.json and the switch
\* history as they are in the state
FailedUnknownHouse(st, op) ==
    /\ st.ret = [op |-> op, raised |-> "ValueError"]
    /\ st.houses = houses /\ st.disk = disk /\ st.history = history

C17_RegisterKeepsExistingHouse ==
    \A h \in HouseIds, ph \in ReportedPhases :
        Registered(houses, h) =>
            AddHouse(ProgramState, h, ph).houses[h] = houses[h]

\* add_house has just returned for a house that the switch history shows
\* was moved before, and the house is back at the epoch with no reading
C17_Witness ==
    /\ ret.op = "add_house"
    /\ \E k \in 1..Len(history) :
          /\ Registered(houses, history[k].house_id)
          /\ houses[history[k].house_id].last_changed = EPOCH
          /\ IsNone(houses[history[k].house_id].last_reading)

\* C18: whatever persistence call fails while run_cycle applies a switch,
\* run_cycle returns its status without raising and the house of the
\* recommendation is, in memory, on its new phase with last_changed set to
\* the time of the switch, every other house as it was
C18_PersistenceFailureKeepsDecision ==
    [][DoRunCycleFaulty =>
        /\ ret'.raised = "none"
        /\ ~IsNone(ret'.recommendation) =>
              LET rec == Get(ret'.recommendation)
              IN  /\ houses'[rec.house_id].phase = rec.to_phase
                  /\ houses'[rec.house_id].last_changed = now
                  /\ \A h \in 1..Len(houses) :
                        h # rec.house_id => houses'[h] = houses[h]]_vars

\* a cycle has just returned its status with an apply_error: the house is
\* on its new phase in memory, houses.json does not have it there and the
\* switch history has no record of it
C18_Witness ==
    /\ ret.op = "run_cycle" /\ ret.raised = "none"
    /\ ~IsNone(ret.recommendation)
    /\ "apply_error" \in DOMAIN ret
    /\ houses[Get(ret.recommendation).house_id].phase
          = Get(ret.recommendation).to_phase
    /\ houses[Get(ret.recommendation).house_id].last_changed = now
    /\ disk # SaveHouses(houses)
    /\ history = <<>>

\* the raw power of the last reading of a house, 0 without a reading
RawPower(house) ==
    IF IsNone(house.last_reading) THEN 0
    ELSE Get(house.last_reading).power_kw

\* the improvement is positive and the house is a strong mover (0.1 kW), or
\* the imbalance is high (0.15 kW), or the improvement is good (0.05 kW)
MeetsStrengthCriteria(rec, house, imbalance) ==
    /\ rec.improved_kw > 0
    /\ \/ Abs(RawPower(house)) >= 10
       \/ imbalance >= 15
       \/ rec.improved_kw >= 5

\* ordinary candidates for the houses of a store: any registered house, an
\* improvement below, at and above zero and the good-improvement threshold
OrdinaryCandidates(hs) ==
    {RecommendedSwitch(h, hs[h].phase, to, imp, 0, reason) :
        h \in 1..Len(hs), to \in {"L2"}, imp \in {-5, 0, 3, 5},
        reason \in {ReasonExport, ReasonConsume}}

\* C19: a switch that run_cycle applies for a candidate without the
\* CONFLICT tag has improvement > 0 and a strong house, a high imbalance or
\* a good improvement; the validation of run_cycle drops every ordinary
\* candidate that fails this, whatever the imbalance
C19_OrdinaryMovesPassStrengthGate ==
    [][DoRunCycle =>
        /\ (/\ ret'.raised = "none" /\ ~IsNone(ret'.recommendation)
            /\ ~HasConflictTag(Get(ret'.recommendation).reason))
              => MeetsStrengthCriteria(Get(ret'.recommendation),
                    houses[Get(ret'.recommendation).house_id],
                    ret'.imbalance_kw)
        /\ \A rec \in OrdinaryCandidates(houses), imbalance \in {10, 15} :
              ~MeetsStrengthCriteria(rec, houses[rec.house_id], imbalance)
                  => IsNone(ValidateRecommendation(Some(rec), houses, now,
                                                   imbalance))]_vars

\* a cycle has just applied a move without the CONFLICT tag
C19_Witness ==
    /\ ret.op = "run_cycle" /\ ret.raised = "none"
    /\ ~IsNone(ret.recommendation)
    /\ ~HasConflictTag(Get(ret.recommendation).reason)
    /\ Get(ret.recommendation).improved_kw > 0
    /\ houses[Get(ret.recommendation).house_id].phase
          = Get(ret.recommendation).to_phase

\* the export search offers a CONFLICT-tagged move of a house that was
\* switched less than the cooldown ago
ConflictMoveInCooldown(hs, t) ==
    /\ ~GetPhaseStatsRaises(hs, t)
    /\ ~IsNone(ExportFindBestSwitch(hs, t))
    /\ HasConflictTag(Get(ExportFindBestSwitch(hs, t)).reason)
    /\ InCooldown(hs[Get(ExportFindBestSwitch(hs, t)).house_id], t)

\* C20: a run_cycle in the export regime whose search returns a
\* CONFLICT-tagged candidate applies it even when the house of the
\* candidate was switched less than MIN_SWITCH_GAP ago
C20_ConflictMovesSkipCooldown ==
    [][(/\ DoRunCycle /\ ret'.raised = "none" /\ ret'.mode = "EXPORT"
        /\ ConflictMoveInCooldown(houses, now)) =>
        /\ ret'.recommendation = ExportFindBestSwitch(houses, now)
        /\ houses'[Get(ExportFindBestSwitch(houses, now)).house_id].phase
              = Get(ExportFindBestSwitch(houses, now)).to_phase]_vars

\* a cycle in the export regime has just returned without a recommendation
\* although its search offers a CONFLICT-tagged move: the house is inside
\* its cooldown
C20_Witness ==
    /\ QuietCycle(ret) /\ ret.mode = "EXPORT"
    /\ ConflictMoveInCooldown(houses, now)


\* the last call was a telemetry submission that was answered
TelemetryAnswered ==
    ret.op = "telemetry" /\ ret.raised = "none"

\* every reported and every assigned phase is one of L1, L2, L3
ValidPhases(hs, r) ==
    /\ r.phase \in PhaseSet
    /\ \A h \in 1..Len(hs) : hs[h].phase \in PhaseSet

\* a step of either telemetry endpoint: the call it records is a telemetry
\* submission
TelemetryStep == ret'.op = "telemetry"

\* C21: a telemetry submission for house h (all phases being valid ones)
\* leaves h registered, on the reported phase if it was unseen, with the
\* reading it submitted, has run one cycle, and answers with the phase h is
\* on after that cycle
C21_TelemetryAnswersOwnPhase ==
    [][(TelemetryStep /\ ValidPhases(houses, ret')) =>
        /\ ret'.raised = "none"
        /\ Registered(houses', ret'.house_id)
        /\ Len(houses') = Max2(Len(houses), ret'.house_id)
        /\ ~Registered(houses, ret'.house_id) =>
              \/ houses'[ret'.house_id].phase = ret'.phase
              \/ Get(ret'.status.recommendation).house_id = ret'.house_id
        /\ ~IsNone(houses'[ret'.house_id].last_reading)
        /\ Get(houses'[ret'.house_id].last_reading).timestamp = now
        /\ Get(houses'[ret'.house_id].last_reading).power_kw = ret'.power_kw
        /\ ret'.status.op = "run_cycle"
        /\ Len(history') <= Len(history) + 1
        /\ ret'.new_phase = houses'[ret'.house_id].phase]_vars

\* a telemetry submission has been answered after its cycle moved a house
\* other than the reporting one
C21_Witness ==
    /\ TelemetryAnswered
    /\ ~IsNone(ret.status.recommendation)
    /\ Get(ret.status.recommendation).house_id # ret.house_id
    /\ houses[Get(ret.status.recommendation).house_id].phase
          = Get(ret.status.recommendation).to_phase


\* house h was switched in this step: the history has one more record, of
\* the move of h from its old to its new phase at this instant
SwitchedBy(h, before, after, log_before, log_after, t) ==
    /\ log_after = Append(log_before,
                          SwitchRecord(t, h, before[h].phase, after[h].phase,
                                       log_after[Len(log_after)].reason))
    /\ after[h].last_changed = t

\* C22: the phase and last_changed of a registered house change only in a
\* step that applies a switch of that house; update_reading, a cycle without
\* an accepted recommendation, a telemetry submission that reports another
\* phase and every other call leave them as they were
C22_OnlyApplySwitchChangesPhase ==
    [][\A h \in 1..Len(houses) :
          (\/ houses'[h].phase # houses[h].phase
           \/ houses'[h].last_changed # houses[h].last_changed)
              => /\ Len(history') = Len(history) + 1
                 /\ SwitchedBy(h, houses, houses', history, history', now)]_vars

\* a telemetry submission of a registered house that reported a phase other
\* than its own has been answered without a switch; the house is where it
\* was
C22_Witness ==
    /\ TelemetryAnswered
    /\ IsNone(ret.status.recommendation)
    /\ ret.phase # houses[ret.house_id].phase
    /\ ret.new_phase = houses[ret.house_id].phase


\* the statistics `stats` with the sample of a house (its effective power
\* eff, its voltage and its count of one) taken off phase `from` and put on
\* phase `to`; nothing moves for a house without an effective power
MoveSample(stats, house, eff, from, to) ==
    IF IsNone(eff) THEN stats
    ELSE LET Share(p, x) == (IF p = to THEN x ELSE 0)
                            - (IF p = from THEN x ELSE 0)
         IN  [k \in 1..Len(stats) |->
                [phase |-> stats[k].phase,
                 total_power_kw |-> stats[k].total_power_kw
                                    + Share(stats[k].phase, Get(eff)),
                 house_count |-> stats[k].house_count
                                 + Share(stats[k].phase, 1),
                 voltage_sum |-> stats[k].voltage_sum
                                 + Share(stats[k].phase,
                                         Get(house.last_reading).voltage)]]

\* C23: after an apply_switch of house h to a target phase, get_phase_stats
\* at the same instant is the statistics from before the switch with the
\* effective power, the voltage sample and the count of h taken off its old
\* phase and put on the target; the other phases are as they were
C23_StatsFollowSwitch ==
    [][(/\ Len(history') = Len(history) + 1
        /\ ~GetPhaseStatsRaises(houses, now)
        /\ history'[Len(history')].to_phase \in PhaseSet) =>
        LET rec == history'[Len(history')]
        IN  /\ ~GetPhaseStatsRaises(houses', now)
            /\ GetPhaseStats(houses', now) =
                 MoveSample(GetPhaseStats(houses, now), houses[rec.house_id],
                            EffectivePowerKw(houses[rec.house_id], now),
                            rec.from_phase, rec.to_phase)]_vars

\* apply_switch has just moved a house with a reading off a phase on which
\* another house reports, too
C23_Witness ==
    /\ ret.op = "apply_switch" /\ ret.raised = "none"
    /\ Len(history) > 0
    /\ LET rec == history[Len(history)]
       IN  /\ rec.from_phase # rec.to_phase
           /\ rec.to_phase \in PhaseSet
           /\ houses[rec.house_id].phase = rec.to_phase
           /\ ~IsNone(EffectivePowerKw(houses[rec.house_id], now))
           /\ \E g \in 1..Len(houses) :
                 /\ g # rec.house_id
                 /\ houses[g].phase = rec.from_phase
                 /\ ~IsNone(EffectivePowerKw(houses[g], now))


\* smoothed is alpha * power + (1 - alpha) * previous, alpha being
\* EWMA_ALPHA_NUM / EWMA_ALPHA_DEN
IsWeightedMean(smoothed, power, previous) ==
    EWMA_ALPHA_DEN * smoothed
        = EWMA_ALPHA_NUM * power + (EWMA_ALPHA_DEN - EWMA_ALPHA_NUM) * previous

\* C24: an update_reading with power p sets the smoothed power of the house
\* to p when the house had none (its first reading), and to
\* alpha * p + (1 - alpha) * (previous smoothed power) otherwise
C24_SmoothedIsEwma ==
    [][(ret'.op = "update_reading" /\ ret'.raised = "none") =>
        \A h \in 1..Len(houses) :
            houses'[h] # houses[h] =>
                /\ ~IsNone(houses'[h].last_reading)
                /\ ~IsNone(houses'[h].smoothed_power_kw)
                /\ LET p == Get(houses'[h].last_reading).power_kw
                       smoothed == Get(houses'[h].smoothed_power_kw)
                   IN  IF IsNone(houses[h].smoothed_power_kw)
                       THEN smoothed = p
                       ELSE IsWeightedMean(smoothed, p,
                                Get(houses[h].smoothed_power_kw))]_vars

\* a second reading of another power has just been smoothed: the smoothed
\* power lies strictly between the two readings
C24_Witness ==
    /\ ret.op = "update_reading" /\ ret.raised = "none"
    /\ \E h \in 1..Len(houses) :
          /\ ~IsNone(houses[h].last_reading)
          /\ ~IsNone(houses[h].smoothed_power_kw)
          /\ Get(houses[h].last_reading).timestamp = now
          /\ Get(houses[h].last_reading).power_kw = 120
          /\ Get(houses[h].smoothed_power_kw) = -88


\* C25: for every triple of PhaseStats, get_imbalance returns the largest
\* total_power minus the smallest one, which is not negative
C25_ImbalanceIsMaxMinusMin ==
    ret.op = "get_imbalance" =>
        /\ ret.value >= 0
        /\ \E i, j \in 1..Len(ret.totals) :
              /\ \A k \in 1..Len(ret.totals) :
                    ret.totals[j] <= ret.totals[k] /\ ret.totals[k] <= ret.totals[i]
              /\ ret.value = ret.totals[i] - ret.totals[j]

\* get_imbalance has returned for three totals of which the middle phase
\* has the largest and the first phase the smallest, a negative one
C25_Witness ==
    /\ ret.op = "get_imbalance"
    /\ ret.totals[1] < 0
    /\ ret.totals[1] < ret.totals[3]
    /\ ret.totals[3] < ret.totals[2]
    /\ ret.value = ret.totals[2] - ret.totals[1]


\* the last record of a switch history
LastRecord(log) == log[Len(log)]

\* C26: the switch history grows by appending, is ordered by time, and gets
\* exactly one record in each apply_switch that succeeds; the from_phase of
\* a record is the phase the house had before that switch, its to_phase the
\* phase the house has after it, and the two differ
C26_HistoryRecordsEachSwitch ==
    [][/\ \/ history' = history
          \/ /\ Len(history') = Len(history) + 1
             /\ SubSeq(history', 1, Len(history)) = history
       /\ (ret'.op = "apply_switch" /\ ret'.raised = "none" /\ now' = now)
             => Len(history') = Len(history) + 1
       /\ Len(history') = Len(history) + 1 =>
             /\ LastRecord(history').timestamp = now
             /\ Len(history) > 0 =>
                   LastRecord(history).timestamp
                       <= LastRecord(history').timestamp
             /\ LastRecord(history').from_phase
                   = houses[LastRecord(history').house_id].phase
             /\ LastRecord(history').to_phase
                   = houses'[LastRecord(history').house_id].phase
             /\ LastRecord(history').to_phase
                   # LastRecord(history').from_phase]_vars

\* the history holds two switches of one house at different times, the
\* second leaving from where the first arrived
C26_Witness ==
    /\ Len(history) = 2
    /\ history[1].house_id = history[2].house_id
    /\ history[1].timestamp < history[2].timestamp
    /\ history[1].from_phase # history[1].to_phase
    /\ history[2].from_phase = history[1].to_phase
    /\ history[2].to_phase # history[2].from_phase
    /\ houses[history[2].house_id].phase = history[2].to_phase


\* C27: with the reading of every house held constant and cycles run again
\* and again, the phase assignment changes finitely often: from some point
\* on no step moves a house
C27_SwitchingStops ==
    <>[][\A h \in 1..Len(houses) : houses'[h].phase = houses[h].phase]_vars

\* a cycle has just moved a house back to the phase that the switch before
\* took it off, the readings being what they were
C27_Witness ==
    /\ ret.op = "run_cycle" /\ ret.raised = "none"
    /\ ~IsNone(ret.recommendation)
    /\ Len(history) = 2
    /\ history[1].house_id = history[2].house_id
    /\ history[2].from_phase = history[1].to_phase
    /\ history[2].to_phase = history[1].from_phase
    /\ history[2].from_phase # history[2].to_phase


-----------------------------------------------------------------------------
\* the houses of S in the order of a stable sort by descending magnitude:
\* larger magnitude first, equal magnitudes in registry order
ByMagnitude(S, magnitude) ==
    CHOOSE s \in [1..Cardinality(S) -> S] :
        \A i, j \in 1..Cardinality(S) :
            i < j => \/ magnitude[s[i]] > magnitude[s[j]]
                     \/ magnitude[s[i]] = magnitude[s[j]] /\ s[i] < s[j]

\* the candidates of the export search: houses with a fresh reading below
\* -0.10 kW; the candidates of the import search: houses whose effective
\* power is above 0.05 kW
ExportCandidates ==
    {h \in 1..Len(houses) :
        /\ HasFreshReading(houses[h], now)
        /\ Get(houses[h].last_reading).power_kw < -10}

ConsumeCandidates ==
    {h \in 1..Len(houses) :
        /\ ~IsNone(EffectivePowerKw(houses[h], now))
        /\ Get(EffectivePowerKw(houses[h], now)) > 5}

\* value is the move of the first pair, in iteration order, with the largest
\* improvement among the pairs <<k, j>> (candidate order[k], target
\* PHASES[j]) that improve by more than zero and by at least
\* max(SWITCH_IMPROVEMENT_KW, percent % of the imbalance); None if no pair
\* does
IsFirstBestPair(value, order, power, percent) ==
    LET totals == PhasePower(GetPhaseStats(houses, now))
        imb == GetImbalance(GetPhaseStats(houses, now))
        Improvement(q) ==
            imb - SimulatedImbalance(totals, houses[order[q[1]]].phase,
                                     PHASES[q[2]], power[order[q[1]]])
        Qualifying ==
            {q \in (DOMAIN order) \X (1..Len(PHASES)) :
                /\ PHASES[q[2]] # houses[order[q[1]]].phase
                /\ Improvement(q) > 0
                /\ Improvement(q) >= SWITCH_IMPROVEMENT_KW
                /\ 100 * Improvement(q) >= percent * imb}
        Before(r, q) == r[1] < q[1] \/ (r[1] = q[1] /\ r[2] < q[2])
    IN  IF Qualifying = {} THEN IsNone(value)
        ELSE /\ ~IsNone(value)
             /\ \E q \in Qualifying :
                    /\ Get(value).house_id = order[q[1]]
                    /\ Get(value).from_phase = houses[order[q[1]]].phase
                    /\ Get(value).to_phase = PHASES[q[2]]
                    /\ Get(value).improved_kw = Improvement(q)
                    /\ \A r \in Qualifying :
                           /\ Improvement(r) <= Improvement(q)
                           /\ Before(r, q) => Improvement(r) < Improvement(q)

\* the export search came to its Priority-2 loop: the imbalance is at or
\* above the minimum and Priority 1 returned no move
ExportSearchReachedLoop ==
    /\ ret.op = "export.find_best_switch"
    /\ ret.raised = "none"
    /\ GetImbalance(GetPhaseStats(houses, now))
           >= Max2(MIN_IMBALANCE_KW, HIGH_IMBALANCE_KW)
    /\ IsNone(ExportConflictMove(houses, now, GetPhaseStats(houses, now)))

\* the import search came to its loop: the imbalance is at or above the
\* minimum
ConsumeSearchReachedLoop ==
    /\ ret.op = "consume.find_best_switch"
    /\ ret.raised = "none"
    /\ GetImbalance(GetPhaseStats(houses, now)) >= MIN_IMBALANCE_KW

\* C28: the Priority-2 search of either strategy returns, among the pairs
\* (candidate house, other phase) whose simulated move improves the imbalance
\* by more than zero and by at least max(SWITCH_IMPROVEMENT_KW, fraction of
\* the imbalance), the pair with the largest improvement, on ties the first
\* one when candidates go by descending magnitude and targets in the order
\* L1, L2, L3; it returns none if no pair qualifies.
C28_SearchReturnsFirstBestPair ==
    /\ ExportSearchReachedLoop =>
           IsFirstBestPair(ret.value,
               ByMagnitude(ExportCandidates,
                   [h \in ExportCandidates |->
                       Abs(Get(houses[h].last_reading).power_kw)]),
               [h \in ExportCandidates |->
                   Get(houses[h].last_reading).power_kw], 5)
    /\ ConsumeSearchReachedLoop =>
           IsFirstBestPair(ret.value,
               ByMagnitude(ConsumeCandidates,
                   [h \in ConsumeCandidates |->
                       Abs(Get(EffectivePowerKw(houses[h], now)))]),
               [h \in ConsumeCandidates |->
                   Get(EffectivePowerKw(houses[h], now))], 2)

\* the export search returned a move of the first of two exporters of equal
\* power on one phase, either of which would improve as much
C28_Witness ==
    /\ ExportSearchReachedLoop
    /\ ~IsNone(ret.value)
    /\ \E h \in ExportCandidates :
           /\ h > Get(ret.value).house_id
           /\ houses[h].phase = Get(ret.value).from_phase
           /\ Get(houses[h].last_reading).power_kw
                  = Get(houses[Get(ret.value).house_id].last_reading).power_kw


-----------------------------------------------------------------------------
\* the search of the regime the registry is in has just returned on the
\* store as it stands
ActiveSearchReturned ==
    /\ ret.raised = "none"
    /\ \/ ret.op = "export.find_best_switch"
          /\ DetectMode(houses, now) = "EXPORT"
       \/ ret.op = "consume.find_best_switch"
          /\ DetectMode(houses, now) = "CONSUME"

\* C29 as stated: whenever detect_conflicted_phases() is non-empty, the
\* search of the active regime, export or import, returns a move off the
\* first conflicted phase whose reason carries the CONFLICT marker.
C29_ConflictMoveInBothRegimes ==
    (/\ ActiveSearchReturned
     /\ Len(DetectConflictedPhases(houses, now)) > 0)
        => /\ ~IsNone(ret.value)
           /\ Get(ret.value).from_phase = DetectConflictedPhases(houses, now)[1]
           /\ HasConflictTag(Get(ret.value).reason)

\* the export search, in the export regime, returned a CONFLICT-tagged move
\* off the first conflicted phase although the move does not lower the
\* imbalance
C29_Witness ==
    /\ ActiveSearchReturned
    /\ ret.op = "export.find_best_switch"
    /\ Len(DetectConflictedPhases(houses, now)) > 0
    /\ ~IsNone(ret.value)
    /\ Get(ret.value).from_phase = DetectConflictedPhases(houses, now)[1]
    /\ HasConflictTag(Get(ret.value).reason)
    /\ Get(ret.value).improved_kw <= 0


-----------------------------------------------------------------------------
\* the export search has just returned a CONFLICT-tagged move on the store as
\* it stands
ConflictMoveReturned ==
    /\ ret.op = "export.find_best_switch"
    /\ ret.raised = "none"
    /\ ~IsNone(ret.value)
    /\ HasConflictTag(Get(ret.value).reason)

\* the net power of phase p
NetPower(p) == PhasePower(GetPhaseStats(houses, now))[p]

\* house h is the strongest of the houses on phase p whose effective power
\* has the sign `sign` (-1 exporters, 1 importers)
StrongestOfSign(h, p, sign) ==
    /\ h \in FreshOnPhase(houses, now, p)
    /\ sign * Get(EffectivePowerKw(houses[h], now)) > 0
    /\ \A g \in FreshOnPhase(houses, now, p) :
           sign * Get(EffectivePowerKw(houses[g], now))
               <= sign * Get(EffectivePowerKw(houses[h], now))

\* C30 as stated: the house of a conflict-resolution move is the strongest
\* house on the source phase whose sign opposes the phase's net direction:
\* an importer when the phase is net-exporting, an exporter when it is
\* net-importing.
C30_ConflictMoveTakesOpposingHouse ==
    ConflictMoveReturned =>
        /\ NetPower(Get(ret.value).from_phase) < 0 =>
               StrongestOfSign(Get(ret.value).house_id,
                               Get(ret.value).from_phase, 1)
        /\ NetPower(Get(ret.value).from_phase) > 0 =>
               StrongestOfSign(Get(ret.value).house_id,
                               Get(ret.value).from_phase, -1)

\* a conflict-resolution move off a net-importing phase takes its strongest
\* exporter
C30_Witness ==
    /\ ConflictMoveReturned
    /\ NetPower(Get(ret.value).from_phase) > 0
    /\ StrongestOfSign(Get(ret.value).house_id, Get(ret.value).from_phase, -1)


-----------------------------------------------------------------------------
\* the phases flagged with `issue` by detect_voltage_issues on the store as
\* it stands
Flagged(issue) == DetectVoltageIssues(GetPhaseStats(houses, now))[issue]

\* the pairs <<house, target phase>> of the candidates S whose simulated
\* move improves the imbalance by more than zero and by at least
\* max(SWITCH_IMPROVEMENT_KW, percent % of the imbalance)
AdmissiblePairs(S, power, percent) ==
    LET totals == PhasePower(GetPhaseStats(houses, now))
        imb == GetImbalance(GetPhaseStats(houses, now))
        Improvement(q) ==
            imb - SimulatedImbalance(totals, houses[q[1]].phase, q[2],
                                     power[q[1]])
    IN  {q \in S \X PhaseSet :
            /\ q[2] # houses[q[1]].phase
            /\ Improvement(q) > 0
            /\ Improvement(q) >= SWITCH_IMPROVEMENT_KW
            /\ 100 * Improvement(q) >= percent * imb}

ExportAdmissiblePairs ==
    AdmissiblePairs(ExportCandidates,
        [h \in ExportCandidates |-> Get(houses[h].last_reading).power_kw], 5)

ConsumeAdmissiblePairs ==
    AdmissiblePairs(ConsumeCandidates,
        [h \in ConsumeCandidates |-> Get(EffectivePowerKw(houses[h], now))], 2)

\* a search has just returned a move on the store as it stands
SearchReturnedMove(op) ==
    ret.op = op /\ ret.raised = "none" /\ ~IsNone(ret.value)

\* C31 as stated: the export search recommends no move onto a phase flagged
\* OVER_VOLTAGE, and the import search no move onto a phase flagged
\* UNDER_VOLTAGE, when an unflagged target phase offers an admissible move.
C31_SearchAvoidsFlaggedTarget ==
    /\ (/\ SearchReturnedMove("export.find_best_switch")
        /\ \E q \in ExportAdmissiblePairs : q[2] \notin Flagged("OVER_VOLTAGE"))
           => Get(ret.value).to_phase \notin Flagged("OVER_VOLTAGE")
    /\ (/\ SearchReturnedMove("consume.find_best_switch")
        /\ \E q \in ConsumeAdmissiblePairs :
               q[2] \notin Flagged("UNDER_VOLTAGE"))
           => Get(ret.value).to_phase \notin Flagged("UNDER_VOLTAGE")

\* the export search returned a move while a phase is flagged OVER_VOLTAGE
\* and both a flagged and an unflagged target offer an admissible move
C31_Witness ==
    /\ SearchReturnedMove("export.find_best_switch")
    /\ \E q \in ExportAdmissiblePairs : q[2] \notin Flagged("OVER_VOLTAGE")
    /\ \E q \in ExportAdmissiblePairs : q[2] \in Flagged("OVER_VOLTAGE")


-----------------------------------------------------------------------------
\* the import search has just returned a move, in the import regime, while a
\* phase is flagged UNDER_VOLTAGE
ConsumeMoveUnderLowVoltage ==
    /\ SearchReturnedMove("consume.find_best_switch")
    /\ DetectMode(houses, now) = "CONSUME"
    /\ Flagged("UNDER_VOLTAGE") # {}

\* C32 as stated: in the import regime, whenever a phase is flagged
\* UNDER_VOLTAGE, every move the strategy recommends leaves a phase that is
\* flagged UNDER_VOLTAGE.
C32_SourcesAreUnderVoltage ==
    ConsumeMoveUnderLowVoltage =>
        Get(ret.value).from_phase \in Flagged("UNDER_VOLTAGE")

\* the import search returned a move off an under-voltage phase while
\* another phase carrying a consumer is not flagged
C32_Witness ==
    /\ ConsumeMoveUnderLowVoltage
    /\ Get(ret.value).from_phase \in Flagged("UNDER_VOLTAGE")
    /\ \E h \in ConsumeCandidates : houses[h].phase \notin Flagged("UNDER_VOLTAGE")


-----------------------------------------------------------------------------
\* detect_voltage_issues and detect_power_issues list no phase
NoIssues(phase_stat) ==
    /\ \A k \in DOMAIN DetectVoltageIssues(phase_stat) :
           DetectVoltageIssues(phase_stat)[k] = {}
    /\ \A k \in DOMAIN DetectPowerIssues(phase_stat) :
           DetectPowerIssues(phase_stat)[k] = {}

\* the store as it stands has no voltage issue and no power issue, and its
\* imbalance is below the minimal action threshold
HealthyStore ==
    /\ ~GetPhaseStatsRaises(houses, now)
    /\ NoIssues(GetPhaseStats(houses, now))
    /\ GetImbalance(GetPhaseStats(houses, now)) < MIN_IMBALANCE_KW

\* the step is a run_cycle call
RunCycleStep == ret'.op = "run_cycle" /\ now' = now

\* C33 as stated: a run_cycle on a store without voltage or power issues
\* whose imbalance is below the minimal action threshold returns a status
\* with recommendation = null and changes neither a HouseState nor the
\* controller's mode state.
C33_HealthyCycleChangesNothing ==
    [][(RunCycleStep /\ HealthyStore) =>
        /\ ret'.raised = "none"
        /\ IsNone(ret'.recommendation)
        /\ houses' = houses
        /\ <<last_mode, pending_mode, pending_since>>'
               = <<last_mode, pending_mode, pending_since>>]_vars

\* a run_cycle has returned without a recommendation on a store of
\* registered houses that has no issue and is in balance
C33_Witness ==
    /\ ret.op = "run_cycle" /\ ret.raised = "none"
    /\ IsNone(ret.recommendation)
    /\ Len(houses) > 0
    /\ NoIssues(ret.phase_stats)
    /\ ret.imbalance_kw < MIN_IMBALANCE_KW
    /\ HealthyStore


-----------------------------------------------------------------------------
\* the step is an observation of a mode other than the confirmed one, made at
\* least the stability duration after that mode began to be detected
LateObservation ==
    /\ ret'.op = "_stable_mode"
    /\ last_mode # NoMode
    /\ ret'.detected # last_mode
    /\ ~IsNone(flip_since)
    /\ now - Get(flip_since) >= MODE_STABLE_SECONDS

\* C34: if from some observation on every mode passed to _stable_mode is the
\* same mode M, other than the confirmed one, and observations keep
\* occurring, the first observation made at least MODE_STABLE_SECONDS after
\* the start of that run promotes M, so the confirmed mode eventually is M.
C34_DebouncePromotes ==
    /\ [][LateObservation => last_mode' = ret'.detected]_vars
    /\ \A M \in Modes :
           <>[][ret'.op = "_stable_mode" => ret'.detected = M]_vars
               => <>[](last_mode = M)

\* an observation has promoted a mode that was detected for the stability
\* duration against the confirmed one
C34_Witness ==
    /\ ret.op = "_stable_mode"
    /\ ret.before # NoMode
    /\ ret.detected # ret.before
    /\ last_mode = ret.detected
    /\ ~IsNone(pending_since)
    /\ now - Get(pending_since) >= MODE_STABLE_SECONDS


-----------------------------------------------------------------------------
\* the step is a run_cycle call that applied a switch not tagged CONFLICT
OrdinarySwitchApplied ==
    /\ RunCycleStep
    /\ ret'.raised = "none"
    /\ ~IsNone(ret'.recommendation)
    /\ ~HasConflictTag(Get(ret'.recommendation).reason)
    /\ houses'[Get(ret'.recommendation).house_id].phase
           = Get(ret'.recommendation).to_phase

\* C35 as stated: right after an applied switch that is not tagged CONFLICT
\* the imbalance get_phase_stats and get_imbalance compute equals the
\* new_imbalance of the recommendation and is strictly lower than the
\* imbalance before the switch.
C35_ImbalanceAfterSwitchAsPredicted ==
    [][OrdinarySwitchApplied =>
        /\ GetImbalance(GetPhaseStats(houses', now'))
               = Get(ret'.recommendation).new_imbalance_kw
        /\ GetImbalance(GetPhaseStats(houses', now')) < ret'.imbalance_kw]_vars

\* a cycle has applied an 'Export mode' move of a house whose smoothed power
\* differs from its last reading
C35_Witness ==
    /\ ret.op = "run_cycle" /\ ret.raised = "none"
    /\ ~IsNone(ret.recommendation)
    /\ Get(ret.recommendation).reason = ReasonExport
    /\ houses[Get(ret.recommendation).house_id].phase
           = Get(ret.recommendation).to_phase
    /\ houses[Get(ret.recommendation).house_id].smoothed_power_kw
           # Some(Get(houses[Get(ret.recommendation).house_id].last_reading)
                      .power_kw)


-----------------------------------------------------------------------------
\* the house a search has just recommended, or a cycle has just recommended
\* and applied: a set of at most one house id
SubjectOfSwitch ==
    IF ret.op = "run_cycle" /\ ret.raised = "none"
    THEN {Get(r).house_id : r \in {r \in {ret.recommendation} : ~IsNone(r)}}
    ELSE IF /\ ret.op \in {"export.find_best_switch",
                           "consume.find_best_switch"}
            /\ ret.raised = "none"
    THEN {Get(r).house_id : r \in {r \in {ret.value} : ~IsNone(r)}}
    ELSE {}

\* C36 as stated: a house whose last reading is missing or older than the
\* expiry window is never the subject of a recommended or applied switch, in
\* either regime, by conflict resolution or by the global search.
C36_SwitchedHousesHaveFreshReading ==
    \A h \in SubjectOfSwitch : HasFreshReading(houses[h], now)

\* a search or a cycle has moved a house with a fresh reading while another
\* house of the store has a reading older than the expiry window
C36_Witness ==
    /\ \E h \in SubjectOfSwitch : HasFreshReading(houses[h], now)
    /\ \E g \in 1..Len(houses) : ~HasFreshReading(houses[g], now)


-----------------------------------------------------------------------------
\* the imbalance of the store as it stands is below the minimal action
\* threshold
BelowActionThreshold ==
    /\ ~GetPhaseStatsRaises(houses, now)
    /\ GetImbalance(GetPhaseStats(houses, now)) < MIN_IMBALANCE_KW

\* C37: a run_cycle on a store whose imbalance is below the minimal action
\* threshold applies no switch, also when a phase has an internal
\* export/import conflict at that moment.
C37_NoSwitchBelowThreshold ==
    [][(RunCycleStep /\ BelowActionThreshold) =>
        /\ ret'.raised = "none"
        /\ IsNone(ret'.recommendation)
        /\ houses' = houses
        /\ history' = history]_vars

\* a cycle has returned without a switch on a store that is in balance and
\* has a conflicted phase
C37_Witness ==
    /\ ret.op = "run_cycle" /\ ret.raised = "none"
    /\ IsNone(ret.recommendation)
    /\ ret.imbalance_kw < MIN_IMBALANCE_KW
    /\ BelowActionThreshold
    /\ Len(DetectConflictedPhases(houses, now)) > 0


-----------------------------------------------------------------------------
\* the one candidate the search of regime `mode` returns on the store as it
\* stands
SearchedMove(mode) ==
    IF mode = "EXPORT" THEN ExportFindBestSwitch(houses, now)
    ELSE ConsumeFindBestSwitch(houses, now)

\* house h was switched less than MIN_SWITCH_GAP_SEC ago
StillInCooldown(h) == now - houses[h].last_changed < MIN_SWITCH_GAP_SEC

\* the search of regime `mode` returns a move of a house that is still in
\* cooldown
CandidateInCooldown(mode) ==
    /\ ~GetPhaseStatsRaises(houses, now)
    /\ ~IsNone(SearchedMove(mode))
    /\ StillInCooldown(Get(SearchedMove(mode)).house_id)

\* C38: when the one candidate the search returns is rejected by validation,
\* here because its house is still in cooldown, run_cycle applies no switch
\* and returns recommendation = null; it does not go on to another candidate.
C38_NoFallbackAfterRejection ==
    [][(RunCycleStep /\ ret'.raised = "none" /\ CandidateInCooldown(ret'.mode))
        => /\ IsNone(ret'.recommendation)
           /\ houses' = houses
           /\ history' = history]_vars

\* a cycle has dropped the move of a house in cooldown and returned nothing,
\* although a house out of cooldown has an admissible improving move
C38_Witness ==
    /\ ret.op = "run_cycle" /\ ret.raised = "none"
    /\ IsNone(ret.recommendation)
    /\ CandidateInCooldown(ret.mode)
    /\ \E q \in IF ret.mode = "EXPORT" THEN ExportAdmissiblePairs
                ELSE ConsumeAdmissiblePairs :
           /\ q[1] # Get(SearchedMove(ret.mode)).house_id
           /\ ~StillInCooldown(q[1])


-----------------------------------------------------------------------------
(* app.py: the read-only endpoints of the analytics site *)

\* GET /analytics/status (get_system_status): the state it leaves and the
\* SystemStatus it returns; any exception becomes an HTTPException 500.
\* The totals are whole hundredths of a kW, so round(x, 2) keeps them.
GetSystemStatus(st, t) ==
    IF GetPhaseStatsRaises(st.houses, t)
    THEN [st EXCEPT !.ret = [op |-> "get_system_status",
                             raised |-> "HTTPException"]]
    ELSE TheOne({
        [st EXCEPT !.last_mode = sm.last_mode,
                   !.pending_mode = sm.pending_mode,
                   !.pending_since = sm.pending_since,
                   !.ret = [op |-> "get_system_status", raised |-> "none",
                            mode |-> sm.result,
                            imbalance_kw |-> GetImbalance(phase_stats),
                            phase_stats |-> phase_stats]]
        : phase_stats \in {GetPhaseStats(st.houses, t)},
          sm \in {StableMode(st, DetectMode(st.houses, t), t)}})

\* GET /analytics/status
DoGetSystemStatus ==
    /\ \E st \in {GetSystemStatus(ProgramState, now)} : Install(st)
    /\ UNCHANGED <<now, flip_since, threadVars>>

\* the controller with status queries between its cycles
NextQueries ==
    \/ DoAddHouse
    \/ DoUpdateReading
    \/ DoRunCycle
    \/ DoGetSystemStatus
    \/ DoGetPhaseStats
    \/ Tick

SpecQueries == Init /\ [][NextQueries]_vars

\* a status query has just returned
QueryStep == ret'.op \in {"get_system_status", "get_phase_stats"}

\* C39 as stated: a read-only status query (GET /analytics/status,
\* get_phase_stats) leaves the confirmed mode, the pending mode and
\* pending_since as they were; only run_cycle advances the debounce.
C39_QueriesKeepModeState ==
    [][QueryStep => <<last_mode, pending_mode, pending_since>>'
                        = <<last_mode, pending_mode, pending_since>>]_vars

\* a status query has returned to a controller that has run a cycle before
C39_Witness ==
    /\ ret.op = "get_system_status" /\ ret.raised = "none"
    /\ last_mode # NoMode
    /\ Len(houses) > 0
    /\ \E h \in 1..Len(houses) : ~IsNone(houses[h].last_reading)

\* the part of C39 that holds: get_phase_stats on its own writes nothing
C39_PhaseStatsKeepsModeState ==
    [][ret'.op = "get_phase_stats"
        => <<last_mode, pending_mode, pending_since>>'
               = <<last_mode, pending_mode, pending_since>>]_vars


\* the process has just been started again
RestartStep == ret'.op = "start" /\ now' = now

\* C40: a restart that keeps the registrations (RESET_HOUSES_ON_START =
\* False) brings back every registered house with the phase and the
\* last_changed it had before, so a house in cooldown before the restart is
\* in cooldown after it; only the reading and the smoothed power are
\* cleared.
C40_RestartKeepsPhaseAndLastChanged ==
    [][RestartStep =>
        /\ Len(houses') = Len(houses)
        /\ \A h \in 1..Len(houses) :
               /\ houses'[h].phase = houses[h].phase
               /\ houses'[h].last_changed = houses[h].last_changed
               /\ InCooldown(houses'[h], now') = InCooldown(houses[h], now)
               /\ IsNone(houses'[h].last_reading)
               /\ IsNone(houses'[h].smoothed_power_kw)]_vars

\* the process has been started again with a house that was switched
\* before: the house is still in cooldown and has lost its reading
C40_Witness ==
    /\ ret.op = "start"
    /\ \E h \in 1..Len(houses) :
           /\ houses[h].last_changed # EPOCH
           /\ InCooldown(houses[h], now)
           /\ IsNone(houses[h].last_reading)
           /\ \E i \in 1..Len(history) :
                  /\ history[i].house_id = h
                  /\ history[i].to_phase = houses[h].phase

====
